---- MODULE Spec2Model ----
(***************************************************************************)
(* Crazy-Note content script: text-anchor resolution, highlight markers,  *)
(* bounded retry timers and the mutation-driven batch pass.                *)
(*                                                                         *)
(* The document is a tree of nodes below <body>.  Every node is a record  *)
(* of one shape:                                                           *)
(*   kind   "text" | "el"                                                  *)
(*   tag    lower-case tag name of an element ("" for a text node)         *)
(*   hid    the HTML id attribute ("" when absent)                         *)
(*   note   the data-note-id attribute (0 when absent)                     *)
(*   color  the --highlight-color style property ("" when absent)          *)
(*   cls    the class attribute ("" when absent)                            *)
(*   uid    identity of an element created by the script (0 for page      *)
(*          content), used where a closure keeps a reference to the node   *)
(*   style  "no" | "display" (display:none) | "visibility" (hidden)        *)
(*   text   character data of a text node (a sequence of characters)      *)
(*   kids   children of an element (a sequence of nodes)                   *)
(* A node reference is the path of 1-based child indexes from <body>; the *)
(* empty path is <body> itself.  Times are in milliseconds.                *)
(***************************************************************************)
EXTENDS Integers, Sequences, FiniteSets, TLC

\* ------------------------------------------------------------------------
\* Bounds of the exploration (not program constants)
\* ------------------------------------------------------------------------
MaxLoads == 2
MaxEnv == 1
MaxParas == 2

\* Notes saved in one probe of saveNote.
MaxSaved == 2

\* Injections of the content script into one page.
MaxInject == 3

\* Tab update events after one call of waitForTabLoad.
MaxTabEvents == 3

\* Messages handled by the service worker's message listener.
MaxMessages == 2

\* Environment events of one behaviour of a busy page (BusySpec).
BusyEnv == 2

\* ------------------------------------------------------------------------
\* Program constants
\* ------------------------------------------------------------------------
maxRetries == 3
RetryBaseMs == 1000
DebounceMs == 500
ObserverCapMs == 30000
SettleMs == 600
TabSettleMs == 500
TabWaitMs == 30000
PulseMs == 2500
ReloadMs == 500
ToastMs == 3000
SaveToastMs == 2500
ToastRemoveMs == 300
SideAutoMs == 3000
SideRemoveMs == 300
MinSearchLen == 3
DefaultColor == "#FFEB3B"

NoNode == <<0>>
NoObserver == 0

\* ------------------------------------------------------------------------
\* Nodes
\* ------------------------------------------------------------------------
TextNode(t) ==
  [kind |-> "text", tag |-> "", hid |-> "", cls |-> "", note |-> 0,
   color |-> "", uid |-> 0, style |-> "no", text |-> t, kids |-> <<>>]

Element(tg, ks) ==
  [kind |-> "el", tag |-> tg, hid |-> "", cls |-> "", note |-> 0,
   color |-> "", uid |-> 0, style |-> "no", text |-> <<>>, kids |-> ks]

\* createHighlightSpan(noteId, color = '#FFEB3B'): an absent colour takes
\* the default parameter value.
createHighlightSpan(noteId, color, u, ks) ==
  [kind |-> "el", tag |-> "span", hid |-> "", cls |-> "mozhii-highlight",
   note |-> noteId,
   color |-> IF color = "" THEN DefaultColor ELSE color,
   uid |-> u, style |-> "no", text |-> <<>>, kids |-> ks]

\* ------------------------------------------------------------------------
\* Sequence helpers
\* ------------------------------------------------------------------------
\* String.prototype.indexOf: 0-based index of the first occurrence, -1 if none.
IndexOf(t, pat) ==
  LET cand == {i \in 0..(Len(t) - Len(pat)) :
                 SubSeq(t, i + 1, i + Len(pat)) = pat}
  IN IF cand = {} THEN -1 ELSE CHOOSE i \in cand : \A j \in cand : i <= j

Includes(t, pat) == IndexOf(t, pat) # -1

Parent(p) == SubSeq(p, 1, Len(p) - 1)

FirstOrNone(paths) == IF paths = <<>> THEN NoNode ELSE Head(paths)

\* ------------------------------------------------------------------------
\* Tree navigation.  "ks" is the child list of <body>.
\* ------------------------------------------------------------------------
RECURSIVE KidsAt(_, _)
KidsAt(ks, p) ==
  IF p = <<>> THEN ks ELSE KidsAt(ks[Head(p)].kids, Tail(p))

NodeAt(ks, p) == KidsAt(ks, Parent(p))[p[Len(p)]]

RECURSIVE ValidPath(_, _)
ValidPath(ks, p) ==
  IF p = <<>> THEN TRUE
  ELSE /\ Head(p) \in 1..Len(ks)
       /\ IF Tail(p) = <<>> THEN TRUE
          ELSE ks[Head(p)].kind = "el" /\ ValidPath(ks[Head(p)].kids, Tail(p))

\* All node paths below a child list, in document order (pre-order).
RECURSIVE PathsFrom(_, _, _)
PathsFrom(ks, pre, i) ==
  IF i > Len(ks) THEN <<>>
  ELSE <<pre \o <<i>>>> \o PathsFrom(ks[i].kids, pre \o <<i>>, 1)
       \o PathsFrom(ks, pre, i + 1)

AllPaths(ks) == PathsFrom(ks, <<>>, 1)

\* Paths of the nodes in the subtree of the element at path p (p excluded).
PathsUnder(ks, p) == PathsFrom(KidsAt(ks, p), p, 1)

FilterSeq(s, Test(_)) ==
  LET F[i \in 0..Len(s)] ==
        IF i = 0 THEN <<>>
        ELSE IF Test(s[i]) THEN Append(F[i - 1], s[i]) ELSE F[i - 1]
  IN F[Len(s)]

\* Replace the children of the element at path p by nks.
RECURSIVE SetKidsAt(_, _, _)
SetKidsAt(ks, p, nks) ==
  IF p = <<>> THEN nks
  ELSE [ks EXCEPT ![Head(p)].kids = SetKidsAt(ks[Head(p)].kids, Tail(p), nks)]

\* Replace the node at path p by the sequence of nodes ns.
SpliceAt(ks, p, ns) ==
  LET sib == KidsAt(ks, Parent(p))
      i == p[Len(p)]
  IN SetKidsAt(ks, Parent(p),
               SubSeq(sib, 1, i - 1) \o ns \o SubSeq(sib, i + 1, Len(sib)))

\* Node.textContent of a child list: the concatenated character data.
RECURSIVE TextContent(_)
TextContent(ks) ==
  IF ks = <<>> THEN <<>>
  ELSE (IF Head(ks).kind = "text" THEN Head(ks).text
        ELSE TextContent(Head(ks).kids)) \o TextContent(Tail(ks))

\* ------------------------------------------------------------------------
\* Structural paths.  A path value is one of
\*   [kind |-> "id",  hid |-> h, steps |-> <<>>]     //*[@id="h"]
\*   [kind |-> "abs", hid |-> "", steps |-> <<[tag, idx], ...>>]
\*                                                /html/body/tag[idx]/...
\*   [kind |-> "bad", hid |-> "", steps |-> <<>>]    '' or a malformed string
\* ------------------------------------------------------------------------
IdPath(h) == [kind |-> "id", hid |-> h, steps |-> <<>>]
AbsPath(st) == [kind |-> "abs", hid |-> "", steps |-> st]
BadPath == [kind |-> "bad", hid |-> "", steps |-> <<>>]

\* Index (in the child list) of the k-th element child with tag tg, 0 if none.
NthOfTag(ks, tg, k) ==
  LET hit == {i \in 1..Len(ks) :
                /\ ks[i].kind = "el" /\ ks[i].tag = tg
                /\ Cardinality({j \in 1..i :
                                  ks[j].kind = "el" /\ ks[j].tag = tg}) = k}
  IN IF hit = {} THEN 0 ELSE CHOOSE i \in hit : TRUE

RECURSIVE EvalSteps(_, _, _)
EvalSteps(ks, pre, st) ==
  IF st = <<>> THEN pre
  ELSE LET i == NthOfTag(ks, Head(st).tag, Head(st).idx)
       IN IF i = 0 THEN NoNode
          ELSE EvalSteps(ks[i].kids, pre \o <<i>>, Tail(st))

\* getElementByXPath: document.evaluate(..., FIRST_ORDERED_NODE_TYPE); an
\* exception of the evaluator (malformed or empty expression) yields null.
\* The steps after //*[@id="h"] are taken from every element carrying the
\* id; the first node of the result in document order is returned.
ElementsWithId(ks, h) ==
  FilterSeq(AllPaths(ks),
            LAMBDA q : NodeAt(ks, q).kind = "el" /\ NodeAt(ks, q).hid = h)

SelectedFrom(ks, starts, st) ==
  {EvalSteps(KidsAt(ks, starts[i]), starts[i], st) : i \in 1..Len(starts)}
    \ {NoNode}

FirstInDocument(ks, ns) ==
  FirstOrNone(FilterSeq(AllPaths(ks), LAMBDA q : q \in ns))

\* The outcome of document.evaluate(...).singleNodeValue: a node, null, or
\* Thrown when the evaluator throws (empty or malformed expression).
Thrown == <<-1>>

evaluate(ks, xp) ==
  IF xp.kind = "bad" THEN Thrown
  ELSE IF xp.kind = "id"
    THEN FirstInDocument(ks, SelectedFrom(ks, ElementsWithId(ks, xp.hid),
                                          xp.steps))
    ELSE EvalSteps(ks, <<>>, xp.steps)

\* Variant: no try/catch around the evaluation.
getElementByXPathUncaught(ks, xp) == evaluate(ks, xp)

\* try { return evaluate } catch { return null }
Caught(r) == IF r = Thrown THEN NoNode ELSE r

getElementByXPath(ks, xp) == Caught(evaluate(ks, xp))

\* getXPath(element) for the element at path p (<<>> is document.body).
RECURSIVE getXPath(_, _)
getXPath(ks, p) ==
  IF p = NoNode THEN BadPath
  ELSE IF p # <<>> /\ NodeAt(ks, p).hid # ""
    THEN IdPath(NodeAt(ks, p).hid)
  ELSE IF p = <<>> THEN AbsPath(<<>>)
  ELSE LET sib == KidsAt(ks, Parent(p))
           me == NodeAt(ks, p)
           i == p[Len(p)]
           index == Cardinality({j \in 1..(i - 1) :
                        sib[j].kind = "el" /\ sib[j].tag = me.tag})
           up == getXPath(ks, Parent(p))
       IN \* the parent's path is spliced in as a string prefix: an id
          \* shortcut of an ancestor stays the prefix of the result
          [kind |-> up.kind, hid |-> up.hid,
           steps |-> Append(up.steps, [tag |-> me.tag, idx |-> index + 1])]

\* document.querySelector('[data-note-id="<id>"]'): first match in document
\* order, NoNode when there is none.
MarkerPaths(ks, id) ==
  FilterSeq(AllPaths(ks),
            LAMBDA q : NodeAt(ks, q).kind = "el" /\ NodeAt(ks, q).note = id)

\* Variant: the lookup takes the first marker of any note.
querySelectorAnyMarker(ks, id) ==
  FirstOrNone(FilterSeq(AllPaths(ks),
                        LAMBDA q : NodeAt(ks, q).kind = "el"
                                   /\ NodeAt(ks, q).note # 0))

querySelectorNote(ks, id) ==
  IF MarkerPaths(ks, id) = <<>> THEN NoNode ELSE Head(MarkerPaths(ks, id))

\* window.getComputedStyle(parent): display is the element's own value,
\* visibility is inherited from the ancestors.
ComputedHidden(ks, p) ==
  \/ (p # <<>> /\ NodeAt(ks, p).style = "display")
  \/ \E n \in 1..Len(p) : NodeAt(ks, SubSeq(p, 1, n)).style = "visibility"

NonContentTags == {"script", "style", "noscript"}

\* The acceptNode filter of findElementContainingText on the text node at q.
AcceptsTextNode(ks, q, text) ==
  /\ NodeAt(ks, q).kind = "text"
  /\ ~ComputedHidden(ks, Parent(q))
  /\ (Parent(q) = <<>> \/ NodeAt(ks, Parent(q)).tag \notin NonContentTags)
  /\ Includes(NodeAt(ks, q).text, text)

\* Variant: the search has no minimum length.
findAnyLength(ks, text) ==
  LET hits == FilterSeq(AllPaths(ks),
                        LAMBDA q : AcceptsTextNode(ks, q, text))
  IN IF hits = <<>> THEN NoNode ELSE Parent(Head(hits))

\* Variant: the search never finds anything.
findNothing(ks, text) == NoNode

\* findElementContainingText(text): parent of the first accepted text node
\* below document.body.
findElementContainingText(ks, text) ==
  IF Len(text) < MinSearchLen THEN NoNode
  ELSE LET hits == FilterSeq(AllPaths(ks),
                             LAMBDA q : AcceptsTextNode(ks, q, text))
       IN IF hits = <<>> THEN NoNode ELSE Parent(Head(hits))

\* Variant: the last text node below the element that contains the text.
LastLeafWith(ks, el, text) ==
  LET hits == FilterSeq(PathsUnder(ks, el),
                        LAMBDA q : NodeAt(ks, q).kind = "text"
                                   /\ Includes(NodeAt(ks, q).text, text))
  IN IF hits = <<>> THEN NoNode ELSE hits[Len(hits)]

\* The text node tryApplyHighlight wraps: the first text node below the
\* element (document order, no filter) whose data contains the text.
FirstLeafWith(ks, el, text) ==
  LET hits == FilterSeq(PathsUnder(ks, el),
                        LAMBDA q : NodeAt(ks, q).kind = "text"
                                   /\ Includes(NodeAt(ks, q).text, text))
  IN IF hits = <<>> THEN NoNode ELSE Head(hits)

\* Range.surroundContents(span) for the range [s, e) inside the text node
\* at path q: the node is split at s (Range.insertNode splits the start
\* node), the span receives the extracted characters (no child at all for a
\* collapsed range) and is inserted between the two halves.
SurroundInLeaf(ks, q, s, e, span) ==
  LET t == NodeAt(ks, q).text
      inner == IF e > s THEN <<TextNode(SubSeq(t, s + 1, e))>> ELSE <<>>
  IN SpliceAt(ks, q, << TextNode(SubSeq(t, 1, s)),
                        [span EXCEPT !.kids = inner],
                        TextNode(SubSeq(t, e + 1, Len(t))) >>)

\* Node.normalize() on a child list: empty text nodes are removed and
\* adjacent text nodes merged, in the whole subtree.
RECURSIVE Normalize(_)
Normalize(ks) ==
  IF ks = <<>> THEN <<>>
  ELSE LET h == Head(ks)
           rest == Normalize(Tail(ks))
       IN IF h.kind = "el"
            THEN <<[h EXCEPT !.kids = Normalize(h.kids)]>> \o rest
          ELSE IF h.text = <<>> THEN rest
          ELSE IF rest # <<>> /\ Head(rest).kind = "text"
            THEN <<TextNode(h.text \o Head(rest).text)>> \o Tail(rest)
          ELSE <<h>> \o rest

\* removeHighlight(noteId) on the tree: the first marker with the id is
\* replaced by its children and its parent is normalized.
NormalizeAt(ks, p) == SetKidsAt(ks, p, Normalize(KidsAt(ks, p)))

Unwrap(ks, h) ==
  IF h = NoNode THEN ks
  ELSE NormalizeAt(SpliceAt(ks, h, NodeAt(ks, h).kids), Parent(h))

removeHighlightDom(ks, id) == Unwrap(ks, querySelectorNote(ks, id))

\* Number of marker elements carrying the note id.
MarkerCount(ks, id) == Len(MarkerPaths(ks, id))

UidPaths(ks, u) ==
  FilterSeq(AllPaths(ks), LAMBDA q : NodeAt(ks, q).uid = u)

\* element.remove() for a script-created element kept by a closure.
RemoveNode(ks, q) == IF q = NoNode THEN ks ELSE SpliceAt(ks, q, <<>>)

RemoveUid(ks, u) == RemoveNode(ks, FirstOrNone(UidPaths(ks, u)))

\* ------------------------------------------------------------------------
\* Anchors (notes).  highlightColor "" stands for an absent property.
\* ------------------------------------------------------------------------
Abc == <<"a", "b", "c">>
Xx == <<"x", "x">>

NoteOf(id) ==
  CASE id = 1 -> [id |-> 1, text |-> Abc,
                  elementPath |-> AbsPath(<<[tag |-> "p", idx |-> 1]>>),
                  highlightColor |-> DefaultColor]
    [] id = 2 -> [id |-> 2, text |-> <<>>,
                  elementPath |-> AbsPath(<<[tag |-> "p", idx |-> 1]>>),
                  highlightColor |-> DefaultColor]
    [] id = 4 -> [id |-> 4, text |-> Xx,
                  elementPath |-> AbsPath(<<[tag |-> "p", idx |-> 1]>>),
                  highlightColor |-> "#80D8FF"]
    [] OTHER  -> [id |-> id, text |-> Abc, elementPath |-> BadPath,
                  highlightColor |-> "#80D8FF"]

NoteIds == {1, 2, 3, 4}

\* The lists getNotesByUrl answers with.
Responses == {<<>>, <<1>>, <<3>>, <<4>>, <<1, 2>>}

\* The notes commands are delivered for.
CommandNotes == {1}

\* The notes a save is confirmed for (highlightSaved).
SavedNotes == {1, 4}

\* Page content the site renders.
PageTexts == {<<"x", "a", "b", "c">>, <<"x", "x">>}
Para(t) == Element("p", <<TextNode(t)>>)
InitialPages == {<<>>} \cup {<<Para(t)>> : t \in PageTexts}

\* ------------------------------------------------------------------------
\* State
\* ------------------------------------------------------------------------
VARIABLES
  dom,                   \* child list of document.body
  selection,             \* window.getSelection(): [kind, path, s, e]
  pendingHighlights,     \* array of note ids
  highlightObserver,     \* observer id or NoObserver (null)
  connected,             \* observers that are observing document.body
  extensionContextValid,
  runtimeAlive,          \* chrome.runtime.id is available
  retryCount,            \* window['retry_' + id], 0 when absent
  timers,                \* armed setTimeout callbacks, in arming order
  nextUid,               \* allocator of element identities
  nextObs,               \* allocator of observer identities
  requests,              \* getNotesByUrl requests awaiting their answer
  initPending,           \* the initial loadPageHighlights has not started
  urlStale,              \* window.location.href # lastUrl
  pulsing,               \* uids of elements carrying class mozhii-pulse
  churning,              \* the page is mutating continuously
  envCount,              \* environment events, counted up to MaxEnv
  loads,                 \* loadPageHighlights calls so far
  notices,               \* history: the toasts shown so far
  errors,                \* history: uncaught exceptions in callbacks
  calls,                 \* history: applyHighlightFromData calls of the last step
  attempts,              \* history: timer-driven resolution attempts per note
  submitted,             \* history: submissions per note, by entry point
  located,               \* history: notes whose text was ever in the page
  obsAge,                \* history: ms the observer has been attached
  lastOp,                \* history: the handler that ran last
  responses,             \* history: payloads given to sendResponse by it
  probe                  \* a function applied to a tree on its own

vars == <<dom, selection, pendingHighlights, highlightObserver, connected,
          extensionContextValid, runtimeAlive, retryCount, timers, nextUid,
          nextObs, requests, initPending, urlStale, pulsing, churning,
          envCount, loads,
          notices, errors, calls, attempts, submitted, located, obsAge,
          lastOp, responses, probe>>

NoSelection == [kind |-> "none", path |-> <<>>, s |-> 0, e |-> 0]

\* The mutable state a handler works on, threaded through the calls it
\* makes.  hq / nq: mutation records queued for the highlight observers and
\* for the navigation observer; res: the value the last call returned.
Cur ==
  [dom |-> dom, sel |-> selection, pend |-> pendingHighlights,
   hobs |-> highlightObserver, conn |-> connected,
   valid |-> extensionContextValid, retry |-> retryCount,
   timers |-> timers, uid |-> nextUid, nobs |-> nextObs, stale |-> urlStale,
   pulse |-> pulsing, notices |-> notices, err |-> errors, calls |-> <<>>,
   att |-> attempts, sub |-> submitted, age |-> obsAge, req |-> requests,
   hq |-> {}, nq |-> FALSE, res |-> 0, acks |-> <<>>]

Timer(k, a, d, v) == [kind |-> k, arg |-> a, rem |-> d, delay |-> d, via |-> v]

ArmTimer(S, k, a, d, v) == [S EXCEPT !.timers = Append(@, Timer(k, a, d, v))]

\* clearTimeout for the timers of one kind and owner.
ClearTimers(S, k, a) ==
  [S EXCEPT !.timers = FilterSeq(@, LAMBDA t : ~(t.kind = k /\ t.arg = a))]

\* A live selection follows the text node it lies in; when that node is
\* replaced the selection is gone.
KeepSelection(sel, old, new) ==
  IF sel.kind # "leaf" THEN sel
  ELSE IF /\ ValidPath(new, sel.path)
          /\ NodeAt(new, sel.path) = NodeAt(old, sel.path)
    THEN sel ELSE NoSelection

\* Every change of the tree below document.body queues a record for each
\* observer that is observing at that moment.
SetDom(S, new) ==
  IF new = S.dom THEN S
  ELSE [S EXCEPT !.dom = new, !.hq = @ \cup S.conn, !.nq = TRUE,
                 !.sel = KeepSelection(@, S.dom, new)]

\* MutationObserver.disconnect() followed by highlightObserver = null.
Disconnect(S) ==
  [S EXCEPT !.conn = @ \ {S.hobs}, !.hq = @ \ {S.hobs}, !.hobs = NoObserver]

\* The callback of a highlight observer: debounce.
RECURSIVE NotifyHighlightObservers(_, _)
NotifyHighlightObservers(S, os) ==
  IF os = {} THEN S
  ELSE LET o == CHOOSE x \in os : \A y \in os : x <= y
       IN NotifyHighlightObservers(
            ArmTimer(ClearTimers(S, "debounce", o), "debounce", o,
                     DebounceMs, "observer"),
            os \ {o})

\* The callback of the navigation observer created at initialization.
NotifyNavObserver(S) ==
  IF S.nq /\ S.stale
    THEN ArmTimer([S EXCEPT !.stale = FALSE], "reload", 0, ReloadMs, "nav")
    ELSE S

\* Mutation callbacks run as a microtask at the end of the task, in the
\* order in which the observers were created.
Deliver(S) ==
  [NotifyHighlightObservers(NotifyNavObserver(S), S.hq)
     EXCEPT !.hq = {}, !.nq = FALSE]

\* ------------------------------------------------------------------------
\* Highlighting
\* ------------------------------------------------------------------------

\* tryApplyHighlight(element, noteData): wraps the first occurrence of the
\* text inside the first text node of the element that contains it.  The
\* range lies inside one text node, so surroundContents cannot throw and the
\* extractContents fallback is not reached.  res: uid of the span, 0 = null.
WrapAt(S, q, i, note) ==
  [SetDom(S, SurroundInLeaf(S.dom, q, i, i + Len(note.text),
                            createHighlightSpan(note.id, note.highlightColor,
                                                S.uid, <<>>)))
     EXCEPT !.uid = @ + 1, !.res = S.uid]

WrapIn(S, q, note) ==
  IF q = NoNode THEN [S EXCEPT !.res = 0]
  ELSE WrapAt(S, q, IndexOf(NodeAt(S.dom, q).text, note.text), note)

\* Variant: when no text node contains the text, the first text node of
\* the element is wrapped and null is returned.
tryApplyHighlightMarksAnyway(S, el, note) ==
  IF FirstLeafWith(S.dom, el, note.text) = NoNode
       /\ FirstLeafWith(S.dom, el, <<>>) # NoNode
    THEN [WrapAt(S, FirstLeafWith(S.dom, el, <<>>), 0, note) EXCEPT !.res = 0]
    ELSE WrapIn(S, FirstLeafWith(S.dom, el, note.text), note)

tryApplyHighlight(S, el, note) ==
  WrapIn(S, FirstLeafWith(S.dom, el, note.text), note)

\* Variant: every retry waits the base delay.
scheduleHighlightRetryFlat(S, note, via) ==
  IF S.retry[note.id] < maxRetries
    THEN ArmTimer([S EXCEPT !.retry[note.id] = @ + 1],
                  "retry", note.id, RetryBaseMs, via)
    ELSE S

\* scheduleHighlightRetry(noteData); via names the entry point that called.
scheduleHighlightRetry(S, note, via) ==
  IF S.retry[note.id] < maxRetries
    THEN ArmTimer([S EXCEPT !.retry[note.id] = @ + 1],
                  "retry", note.id, RetryBaseMs * (S.retry[note.id] + 1), via)
    ELSE S

\* applyHighlightFromData(noteData)
\* Variant: the text search is preferred to the stored path.
ResolveElementTextFirst(byPath, ks, text) ==
  IF findElementContainingText(ks, text) # NoNode
    THEN findElementContainingText(ks, text)
    ELSE byPath

\* Strategy 1, then strategy 2: the element the text is looked up in.
ResolveElement(byPath, ks, text) ==
  IF byPath # NoNode THEN byPath ELSE findElementContainingText(ks, text)

ApplyResolved(S, existing, element, note, via) ==
  IF existing # NoNode THEN [S EXCEPT !.res = NodeAt(S.dom, existing).uid]
  ELSE IF element = NoNode
    THEN [scheduleHighlightRetry(S, note, via) EXCEPT !.res = 0]
  ELSE tryApplyHighlight(S, element, note)

\* Variant: the lookup of an existing marker is missing.
applyHighlightFromDataUnchecked(S, note, via) ==
  ApplyResolved(S, NoNode,
                ResolveElement(getElementByXPath(S.dom, note.elementPath),
                               S.dom, note.text),
                note, via)

applyHighlightFromDataCore(S, note, via) ==
  ApplyResolved(S, querySelectorNote(S.dom, note.id),
                ResolveElement(getElementByXPath(S.dom, note.elementPath),
                               S.dom, note.text),
                note, via)

\* The call together with its record in the history of the step.
RecordCall(S, R, note, ex) ==
  [R EXCEPT !.calls = Append(@,
        [id |-> note.id,
         existing |-> IF ex = NoNode THEN 0 ELSE NodeAt(S.dom, ex).uid,
         res |-> R.res,
         touched |-> R.dom # S.dom,
         armed |-> Len(R.timers) - Len(S.timers)])]

applyHighlightFromData(S, note, via) ==
  RecordCall(S, applyHighlightFromDataCore(S, note, via), note,
             querySelectorNote(S.dom, note.id))

\* applyHighlightToSelection(noteId, color); res: 1 = true, 0 = false.
applyHighlightToSelection(S, noteId, color) ==
  IF S.sel.kind \in {"none", "collapsed"} THEN [S EXCEPT !.res = 0]
  ELSE IF S.sel.kind = "cross"
    THEN [S EXCEPT !.sel = NoSelection, !.res = 0]
  ELSE [SetDom(S, SurroundInLeaf(S.dom, S.sel.path, S.sel.s, S.sel.e,
                        createHighlightSpan(noteId, color, S.uid, <<>>)))
          EXCEPT !.uid = @ + 1, !.sel = NoSelection, !.res = 1]

\* Variant: the note is dropped from the pending list as well.
removeHighlightForgets(S, noteId) ==
  [SetDom(S, removeHighlightDom(S.dom, noteId))
     EXCEPT !.pend = FilterSeq(@, LAMBDA n : n # noteId)]

\* removeHighlight(noteId)
removeHighlight(S, noteId) == SetDom(S, removeHighlightDom(S.dom, noteId))

\* ------------------------------------------------------------------------
\* UI helpers
\* ------------------------------------------------------------------------

\* showToast(message, duration): the previous toast (looked up by id) is
\* removed, the new one appended to document.body.  After the duration the
\* visibility class is dropped and a second timer of 300 ms removes the
\* element; the class is not part of the state, so the chain is one timer
\* of duration + 300 ms.
RemoveAt(S, q) ==
  IF q = NoNode THEN S ELSE SetDom(S, SpliceAt(S.dom, q, <<>>))

AppendToBody(S, node) == SetDom(S, Append(S.dom, node))

ToastElement(message, u) ==
  [Element("div", <<TextNode(<<message>>)>>) EXCEPT
     !.hid = "mozhii-toast", !.cls = "mozhii-toast", !.uid = u]

showToast(S, message, duration) ==
  ArmTimer([AppendToBody(RemoveAt(S, getElementByXPath(S.dom,
                                       IdPath("mozhii-toast"))),
                         ToastElement(message, S.uid))
              EXCEPT !.uid = @ + 1, !.notices = @ \cup {message}],
           "remove", S.uid, duration + ToastRemoveMs, "toast")

\* noteData.text.substring(0, 80) + '...' for a text longer than 80.
Truncated(t) ==
  IF Len(t) > 80 THEN SubSeq(t, 1, 80) \o <<".", ".", ".">> ELSE t

\* showSideNotification(noteData): the preview paragraph quotes the note
\* text; the fixed labels of the notification are left out.  The element
\* is removed 300 ms after the 3 second auto-remove timer (one timer here,
\* as for the toast).
querySelectorClass(ks, c) ==
  FirstOrNone(FilterSeq(AllPaths(ks), LAMBDA q : NodeAt(ks, q).cls = c))

SideElement(note, u) ==
  [Element("div",
     <<[Element("p", <<TextNode(<<"\"">> \o Truncated(note.text)
                                \o <<"\"">>)>>)
          EXCEPT !.cls = "mozhii-side-text"]>>)
     EXCEPT !.cls = "mozhii-side-notification", !.uid = u]

showSideNotification(S, note) ==
  ArmTimer([AppendToBody(RemoveAt(S, querySelectorClass(S.dom,
                                       "mozhii-side-notification")),
                         SideElement(note, S.uid))
              EXCEPT !.uid = @ + 1],
           "remove", S.uid, SideAutoMs + SideRemoveMs, "side")

\* showSaveConfirmation(noteData)
showSaveConfirmation(S, note) ==
  applyHighlightToSelection(
    showSideNotification(showToast(S, "saved", SaveToastMs), note),
    note.id, note.highlightColor)

\* ------------------------------------------------------------------------
\* Page highlights loader
\* ------------------------------------------------------------------------

\* Variant: the guard "if (highlightObserver) return" is missing.
setupWithoutGuard(S) ==
  ArmTimer([S EXCEPT !.hobs = S.nobs, !.conn = @ \cup {S.nobs},
                     !.nobs = @ + 1, !.age = 0],
           "cap", S.nobs, ObserverCapMs, "observer")

\* setupDynamicContentObserver()
setupDynamicContentObserver(S) ==
  IF S.hobs # NoObserver THEN S
  ELSE ArmTimer([S EXCEPT !.hobs = S.nobs, !.conn = @ \cup {S.nobs},
                          !.nobs = @ + 1, !.age = 0],
                "cap", S.nobs, ObserverCapMs, "observer")

\* response.forEach(note => ...) of loadPageHighlights
DropIfApplied(S, id) ==
  IF S.res # 0 THEN [S EXCEPT !.pend = FilterSeq(@, LAMBDA n : n # id)]
  ELSE S

RECURSIVE LoadEach(_, _)
LoadEach(S, resp) ==
  IF resp = <<>> THEN S
  ELSE LoadEach(
         DropIfApplied(
           applyHighlightFromData([S EXCEPT !.sub[Head(resp)].load = @ + 1],
                                  NoteOf(Head(resp)), "load"),
           Head(resp)),
         Tail(resp))

SetupIfPending(S) ==
  IF Len(S.pend) > 0 THEN setupDynamicContentObserver(S) ELSE S

\* Variant: the notes of the answer are added to the pending list.
loadPageHighlightsReplyKeeps(S, resp) ==
  SetupIfPending(LoadEach([S EXCEPT !.pend = @ \o resp], resp))

\* loadPageHighlights() after the answer of getNotesByUrl arrived.
loadPageHighlightsReply(S, resp) ==
  SetupIfPending(LoadEach([S EXCEPT !.pend = resp], resp))

\* The loop of the debounced callback over pendingHighlights.
\* One iteration of the loop: res = 0 when the note stays pending.
BatchOne(S, id, element) ==
  IF querySelectorNote(S.dom, id) # NoNode THEN [S EXCEPT !.res = 1]
  ELSE IF element = NoNode THEN [S EXCEPT !.res = 0]
  ELSE tryApplyHighlight(S, element, NoteOf(id))

\* Variant: every note of the loop stays pending.
KeepAlways(S, id) == [S EXCEPT !.pend = Append(@, id)]

KeepIfFailed(S, id) ==
  IF S.res = 0 THEN [S EXCEPT !.pend = Append(@, id)] ELSE S

\* pend collects stillPending while the loop runs over list.
RECURSIVE BatchEach(_, _)
BatchEach(S, list) ==
  IF list = <<>> THEN S
  ELSE BatchEach(
         KeepIfFailed(
           BatchOne(S, Head(list),
                    findElementContainingText(S.dom, NoteOf(Head(list)).text)),
           Head(list)),
         Tail(list))

DisconnectIfDone(S) ==
  IF Len(S.pend) = 0 /\ S.hobs # NoObserver THEN Disconnect(S) ELSE S

\* The debounced callback armed by the observer callback.  With an empty
\* pending list and highlightObserver already null, the call of disconnect
\* on null is an uncaught TypeError.
debouncedBatch(S) ==
  IF Len(S.pend) = 0
    THEN IF S.hobs = NoObserver THEN [S EXCEPT !.err = @ + 1]
         ELSE Disconnect(S)
  ELSE DisconnectIfDone(BatchEach([S EXCEPT !.pend = <<>>], S.pend))

\* Variant: the 30 second callback leaves the observer attached.
observerCapKeeps(S) == S

\* The 30 second callback of setupDynamicContentObserver.
observerCap(S) ==
  IF S.hobs # NoObserver THEN Disconnect(S) ELSE S

\* The callback armed by scheduleHighlightRetry.
RetryWith(S, id, element) ==
  IF element = NoNode THEN S
  ELSE [tryApplyHighlight(S, element, NoteOf(id)) EXCEPT !.retry[id] = 0]

retryCallback(S, id) ==
  RetryWith([S EXCEPT !.att[id] = @ + 1], id,
            findElementContainingText(S.dom, NoteOf(id).text))

\* Variant: the notice is shown after the pulse as well.
RestoreOutcomeBoth(S) ==
  IF S.res # 0
    THEN showToast(ArmTimer([S EXCEPT !.pulse = @ \cup {S.res}],
                            "pulse", S.res, PulseMs, "restore"),
                   "not-found", ToastMs)
    ELSE showToast(S, "not-found", ToastMs)

\* The 600 ms callback of restoreNoteContext.
RestoreOutcome(S) ==
  IF S.res # 0
    THEN ArmTimer([S EXCEPT !.pulse = @ \cup {S.res}],
                  "pulse", S.res, PulseMs, "restore")
    ELSE showToast(S, "not-found", ToastMs)

restoreCallback(S, id) ==
  RestoreOutcome(applyHighlightFromData([S EXCEPT !.sub[id].restore = @ + 1],
                                        NoteOf(id), "restore"))

\* loadPageHighlights() up to the await of chrome.runtime.sendMessage.
loadPageHighlightsStart(S) ==
  IF ~runtimeAlive THEN [S EXCEPT !.valid = FALSE]
  ELSE [S EXCEPT !.req = @ + 1]

\* The catch branch of loadPageHighlights for 'Extension context invalidated'.
loadPageHighlightsInvalidated(S) ==
  IF S.hobs # NoObserver THEN Disconnect([S EXCEPT !.valid = FALSE])
  ELSE [S EXCEPT !.valid = FALSE]

\* ------------------------------------------------------------------------
\* Transitions
\* ------------------------------------------------------------------------

\* The text of the note can be found by one of the resolution strategies.
Locatable(ks, id) ==
  LET byPath == getElementByXPath(ks, NoteOf(id).elementPath)
  IN \/ findElementContainingText(ks, NoteOf(id).text) # NoNode
     \/ (byPath # NoNode /\ FirstLeafWith(ks, byPath, NoteOf(id).text) # NoNode)

\* End of a task: the mutation callbacks run, then the state is stored.
\* While the page mutates continuously the next records arrive at once.
Store(S, op, id) ==
     /\ dom' = S.dom
     /\ selection' = S.sel
     /\ pendingHighlights' = S.pend
     /\ highlightObserver' = S.hobs
     /\ connected' = S.conn
     /\ extensionContextValid' = S.valid
     /\ retryCount' = S.retry
     /\ timers' = S.timers
     /\ nextUid' = S.uid
     /\ nextObs' = S.nobs
     /\ requests' = S.req
     /\ urlStale' = S.stale
     /\ pulsing' = S.pulse
     /\ notices' = S.notices
     /\ errors' = S.err
     /\ calls' = S.calls
     /\ attempts' = S.att
     /\ submitted' = S.sub
     /\ obsAge' = S.age
     /\ located' = located \cup {n \in NoteIds : Locatable(S.dom, n)}
     /\ lastOp' = [op |-> op, id |-> id]
     /\ responses' = S.acks
     /\ probe' = probe

Finish(S, churn, op, id) ==
  Store(Deliver(IF churn THEN [S EXCEPT !.hq = S.conn, !.nq = TRUE] ELSE S),
        op, id)

Commit(S, op, id) == Finish(S, churning, op, id) /\ UNCHANGED churning

\* The state of the script after its construction.
Booted ==
  /\ dom \in InitialPages
  /\ selection = NoSelection
  /\ pendingHighlights = <<>>
  /\ highlightObserver = NoObserver
  /\ connected = {}
  /\ extensionContextValid = TRUE
  /\ runtimeAlive = TRUE
  /\ retryCount = [n \in NoteIds |-> 0]
  /\ timers = <<>>
  /\ nextUid = 1
  /\ nextObs = 1
  /\ requests = 0
  /\ initPending = TRUE
  /\ urlStale = FALSE
  /\ pulsing = {}
  /\ churning = FALSE
  /\ loads = 0
  /\ notices = {}
  /\ errors = 0
  /\ calls = <<>>
  /\ attempts = [n \in NoteIds |-> 0]
  /\ submitted = [n \in NoteIds |-> [load |-> 0, restore |-> 0]]
  /\ located = {n \in NoteIds : Locatable(dom, n)}
  /\ obsAge = 0
  /\ lastOp = [op |-> "init", id |-> 0]
  /\ responses = <<>>

\* --- captureNoteContext --------------------------------------------------

\* The value of captureNoteContext(): null, or the anchor with the fields
\* that depend on the selection.
NoAnchor ==
  [null |-> TRUE, text |-> <<>>, elementPath |-> BadPath,
   textInParentOffset |-> 0]

\* String.prototype.trim() over the characters of the model.
WhiteSpace == {" ", "LF"}

RECURSIVE TrimStart(_)
TrimStart(t) ==
  IF t # <<>> /\ Head(t) \in WhiteSpace THEN TrimStart(Tail(t)) ELSE t

RECURSIVE TrimEnd(_)
TrimEnd(t) ==
  IF t # <<>> /\ t[Len(t)] \in WhiteSpace
    THEN TrimEnd(SubSeq(t, 1, Len(t) - 1)) ELSE t

Trim(t) == TrimEnd(TrimStart(t))

\* The nearest block-level ancestor of the node at q (body: <<>>).
BlockTags == {"p", "div"}

RECURSIVE BlockOf(_, _)
BlockOf(ks, q) ==
  IF q = <<>> THEN <<>>
  ELSE IF NodeAt(ks, q).kind = "el" /\ NodeAt(ks, q).tag \in BlockTags THEN q
  ELSE BlockOf(ks, Parent(q))

\* The text nodes of the tree in document order.
TextLeaves(ks) ==
  FilterSeq(AllPaths(ks), LAMBDA q : NodeAt(ks, q).kind = "text")

\* Selection.toString() for whole text nodes in sequence: the text as it
\* is rendered, with a line break between the text of two blocks.
RECURSIVE Rendered(_, _)
Rendered(ks, leaves) ==
  IF leaves = <<>> THEN <<>>
  ELSE IF Len(leaves) = 1 THEN NodeAt(ks, leaves[1]).text
  ELSE NodeAt(ks, leaves[1]).text
       \o (IF BlockOf(ks, leaves[1]) # BlockOf(ks, leaves[2])
             THEN <<"LF">> ELSE <<>>)
       \o Rendered(ks, Tail(leaves))

\* selection.toString() for the selections of the model: a range inside
\* the text node at path, or all text nodes of the tree.
SelectedText(ks, sel) ==
  IF sel.kind = "leaf" THEN SubSeq(NodeAt(ks, sel.path).text, sel.s + 1, sel.e)
  ELSE IF sel.kind = "cross" THEN Rendered(ks, TextLeaves(ks))
  ELSE <<>>

RECURSIVE CommonPrefix(_, _)
CommonPrefix(a, b) ==
  IF a = <<>> \/ b = <<>> \/ Head(a) # Head(b) THEN <<>>
  ELSE <<Head(a)>> \o CommonPrefix(Tail(a), Tail(b))

\* range.commonAncestorContainer, replaced by its parent when it is a
\* text node.
CaptureElement(ks, sel) ==
  IF sel.kind = "leaf" THEN Parent(sel.path)
  ELSE CommonPrefix(Parent(TextLeaves(ks)[1]),
                    Parent(TextLeaves(ks)[Len(TextLeaves(ks))]))

AnchorFor(ks, text, element) ==
  [null |-> FALSE, text |-> text, elementPath |-> getXPath(ks, element),
   textInParentOffset |-> IndexOf(TextContent(KidsAt(ks, element)), text)]

\* captureNoteContext()
captureNoteContext(ks, sel) ==
  IF sel.kind = "none" THEN NoAnchor
  ELSE IF Trim(SelectedText(ks, sel)) = <<>> THEN NoAnchor
  ELSE AnchorFor(ks, Trim(SelectedText(ks, sel)), CaptureElement(ks, sel))

\* A page before the content script has run in it: the flag
\* window.crazyNoteInitialized, the runs of the script, what the runs have
\* registered, and the listeners that handled the last command.
NoPage ==
  [flag |-> FALSE, runs |-> 0, listeners |-> 0, loadsStarted |-> 0,
   navObservers |-> 0, handled |-> 0]

\* Variant: the script without its guard.
contentScriptUnguarded(P) ==
  [P EXCEPT !.flag = TRUE, !.runs = @ + 1, !.listeners = @ + 1,
            !.loadsStarted = @ + 1, !.navObservers = @ + 1]

\* One run of the content script: behind the guard it registers the
\* message listener, starts loadPageHighlights and attaches the navigation
\* observer.
contentScript(P) ==
  IF P.flag THEN [P EXCEPT !.runs = @ + 1]
  ELSE [P EXCEPT !.flag = TRUE, !.runs = @ + 1, !.listeners = @ + 1,
                 !.loadsStarted = @ + 1, !.navObservers = @ + 1]

\* waitForTabLoad(tabId, noteData) of the service worker.  The state of
\* one call: the listener on chrome.tabs.onUpdated, the remaining time of
\* its 30 second timer and of the 500 ms timers armed by the listener, the
\* restoreNote messages sent, and as history the 'complete' events of the
\* tab, the time since the call and the events delivered.
NoWait ==
  [called |-> FALSE, listener |-> FALSE, timeouts |-> <<>>, sends |-> <<>>,
   sent |-> 0, completes |-> 0, age |-> 0, events |-> 0]

WatchedTab == 1
Tabs == {1, 2}
TabStatuses == {"loading", "complete"}

waitForTabLoad(W) ==
  [W EXCEPT !.called = TRUE, !.listener = TRUE, !.timeouts = <<TabWaitMs>>]

\* Variant: the listener stays registered after the first 'complete'.
tabListenerStays(W, tab, status) ==
  IF tab = WatchedTab /\ status = "complete"
    THEN [W EXCEPT !.sends = Append(@, TabSettleMs)]
    ELSE W

\* The listener of waitForTabLoad.
tabListener(W, tab, status) ==
  IF tab = WatchedTab /\ status = "complete"
    THEN [W EXCEPT !.listener = FALSE, !.sends = Append(@, TabSettleMs)]
    ELSE W

\* chrome.tabs.onUpdated fires.
onUpdated(W, tab, status) ==
  IF W.listener THEN tabListener(W, tab, status) ELSE W

SawUpdate(W, tab, status) ==
  [W EXCEPT !.events = @ + 1,
            !.completes = IF tab = WatchedTab /\ status = "complete"
                            THEN @ + 1 ELSE @]

WaitTimers(W) == W.timeouts \o W.sends

MinOf(ts) ==
  CHOOSE r \in {ts[i] : i \in 1..Len(ts)} :
    \A i \in 1..Len(ts) : r <= ts[i]

Elapse(ts, d) == [i \in 1..Len(ts) |-> ts[i] - d]

\* The case labels of the switch of the service worker's message handler,
\* in source order.
BgCases ==
  <<"getNotes", "getNotesByUrl", "getNoteById", "saveNote", "updateNote",
    "deleteNote", "getAllTags", "jumpToNote", "openPopupWithNote",
    "updateNote">>

\* switch (message.action): the first clause whose label is strictly equal
\* to the action is entered; 0 stands for default.
CaseFor(action) ==
  IF \E i \in 1..Len(BgCases) : BgCases[i] = action
    THEN CHOOSE i \in 1..Len(BgCases) :
           /\ BgCases[i] = action
           /\ \A j \in 1..(i - 1) : BgCases[j] # action
    ELSE 0

\* updateNote(noteData) of the service worker: store.put(noteData) on the
\* object store (keyPath id) replaces the record with the key or adds one.
updateNote(store, data) ==
  IF \E i \in 1..Len(store) : store[i].id = data.id
    THEN [i \in 1..Len(store) |->
            IF store[i].id = data.id
              THEN [store[i] EXCEPT !.text = data.text]
              ELSE store[i]]
    ELSE Append(store, [id |-> data.id, gen |-> 0, given |-> data.id,
                        text |-> data.text])

\* deleteNote(noteId) of the service worker: store.delete(noteId).
deleteNote(store, id) ==
  SelectSeq(store, LAMBDA r : r.id # id)

\* The service worker before its message listener has run: the number of
\* messages handled, the last message with the clause entered for it and
\* the response, and the messages sent to tabs.
NoBg ==
  [count |-> 0, action |-> "", fromTab |-> FALSE, id |-> 0, text |-> <<>>,
   clause |-> 0, reply |-> "", toTab |-> <<>>]

\* The listener of chrome.runtime.onMessage: handleAsync for the message
\* msg; fromTab tells whether sender.tab is set.  The result is the store
\* and the state of the worker.
onMessage(B, store, msg, fromTab) ==
  LET c == CaseFor(msg.action)
      seen == [B EXCEPT !.count = @ + 1, !.action = msg.action,
                        !.fromTab = fromTab, !.id = msg.id,
                        !.text = msg.text, !.clause = c,
                        !.reply = "success"]
  IN  IF c = 5
        THEN [store |-> updateNote(store, msg), bg |-> seen]
      ELSE IF c = 6
        THEN [store |-> deleteNote(store, msg.id), bg |-> seen]
      ELSE IF c = 10
        THEN [store |-> updateNote(store, msg),
              bg |-> IF fromTab
                       THEN [seen EXCEPT !.toTab =
                               Append(@, [action |-> "highlightSaved",
                                          noteId |-> msg.id])]
                       ELSE seen]
      ELSE IF c = 0
        THEN [store |-> store, bg |-> [seen EXCEPT !.reply = "error"]]
      ELSE [store |-> store, bg |-> seen]

NoProbe ==
  [stage |-> "none", tree |-> <<>>, note |-> NoteOf(1), el |-> <<>>,
   out |-> <<>>, res |-> 0, armed |-> 0, xpath |-> BadPath, node |-> NoNode,
   saved |-> <<>>, sel |-> NoSelection, cap |-> NoAnchor, page |-> NoPage,
   wait |-> NoWait, bg |-> NoBg]

Init == Booted /\ envCount = 0 /\ probe = NoProbe

\* Initialization: loadPageHighlights is called directly or on
\* DOMContentLoaded.
InitialLoad ==
  /\ initPending
  /\ initPending' = FALSE
  /\ loads' = loads + 1
  /\ Commit(loadPageHighlightsStart(Cur), "loadStart", 0)
  /\ UNCHANGED <<runtimeAlive, envCount>>

\* getNotesByUrl answers with an array.
LoadReply(resp) ==
  /\ requests > 0
  /\ runtimeAlive
  /\ Commit(loadPageHighlightsReply([Cur EXCEPT !.req = @ - 1], resp),
            "loadReply", 0)
  /\ UNCHANGED <<runtimeAlive, initPending, envCount, loads>>

\* sendMessage rejects because the extension was reloaded meanwhile.
LoadInvalidated ==
  /\ requests > 0
  /\ ~runtimeAlive
  /\ Commit(loadPageHighlightsInvalidated([Cur EXCEPT !.req = @ - 1]),
            "loadInvalidated", 0)
  /\ UNCHANGED <<runtimeAlive, initPending, envCount, loads>>

\* sendMessage rejects with another error, or the answer is not an array:
\* nothing but a console message.
LoadFailed ==
  /\ requests > 0
  /\ Commit([Cur EXCEPT !.req = @ - 1], "loadFailed", 0)
  /\ UNCHANGED <<runtimeAlive, initPending, envCount, loads>>

\* --- timers ---------------------------------------------------------

\* A timer runs when its delay has elapsed; of two elapsed timers the one
\* armed earlier with a delay not longer runs first.
Due(i) ==
  /\ i \in 1..Len(timers)
  /\ timers[i].rem = 0
  /\ \A j \in 1..(i - 1) :
        ~(timers[j].rem = 0 /\ timers[j].delay <= timers[i].delay)

Without(i) ==
  [Cur EXCEPT !.timers = SubSeq(timers, 1, i - 1)
                         \o SubSeq(timers, i + 1, Len(timers))]

Fire(i, kind) == Due(i) /\ timers[i].kind = kind

RetryFires(i) ==
  /\ Fire(i, "retry")
  /\ Commit(retryCallback(Without(i), timers[i].arg), "retry", timers[i].arg)
  /\ UNCHANGED <<runtimeAlive, initPending, envCount, loads>>

DebounceFires(i) ==
  /\ Fire(i, "debounce")
  /\ Commit(debouncedBatch(Without(i)), "batch", 0)
  /\ UNCHANGED <<runtimeAlive, initPending, envCount, loads>>

CapFires(i) ==
  /\ Fire(i, "cap")
  /\ Commit(observerCap(Without(i)), "cap", 0)
  /\ UNCHANGED <<runtimeAlive, initPending, envCount, loads>>

\* setTimeout(loadPageHighlights, 500) of the navigation observer.
ReloadFires(i) ==
  /\ Fire(i, "reload")
  /\ loads' = loads + 1
  /\ Commit(loadPageHighlightsStart(Without(i)), "loadStart", 0)
  /\ UNCHANGED <<runtimeAlive, initPending, envCount>>

SettleFires(i) ==
  /\ Fire(i, "settle")
  /\ Commit(restoreCallback(Without(i), timers[i].arg), "restore",
            timers[i].arg)
  /\ UNCHANGED <<runtimeAlive, initPending, envCount, loads>>

PulseFires(i) ==
  /\ Fire(i, "pulse")
  /\ Commit([Without(i) EXCEPT !.pulse = @ \ {timers[i].arg}], "pulseEnd", 0)
  /\ UNCHANGED <<runtimeAlive, initPending, envCount, loads>>

\* toast.remove() and notification.remove() at the end of their timers.
ElementRemoveFires(i) ==
  /\ Fire(i, "remove")
  /\ Commit(SetDom(Without(i), RemoveUid(dom, timers[i].arg)), "remove", 0)
  /\ UNCHANGED <<runtimeAlive, initPending, envCount, loads>>

\* Time passes until the next armed timer is due.  While the page mutates
\* continuously, the debounce timer of an observing observer is cleared and
\* armed again by every burst and never becomes due.
Postponed(t) == churning /\ t.kind = "debounce" /\ t.arg \in connected

Running == FilterSeq(timers, LAMBDA t : ~Postponed(t))

NextDue ==
  LET rs == {Running[i].rem : i \in 1..Len(Running)}
  IN CHOOSE r \in rs : \A q \in rs : r <= q

Tick ==
  /\ Running # <<>>
  /\ NextDue > 0
  /\ timers' = [i \in 1..Len(Running) |->
                  [Running[i] EXCEPT !.rem = @ - NextDue]]
                \o FilterSeq(timers, Postponed)
  /\ obsAge' = IF connected # {} THEN obsAge + NextDue ELSE obsAge
  /\ lastOp' = [op |-> "tick", id |-> 0]
  /\ calls' = <<>>
  /\ responses' = <<>>
  /\ UNCHANGED <<dom, selection, pendingHighlights, highlightObserver,
                 connected, extensionContextValid, runtimeAlive, retryCount,
                 nextUid, nextObs, requests, initPending, urlStale, pulsing,
                 churning, envCount, loads, notices, errors, attempts,
                 submitted, located, probe>>

\* --- commands delivered to the message listener ------------------------

\* The guard at the head of the listener.
ListenerOpen == extensionContextValid /\ runtimeAlive

Command(S, op, id) ==
  /\ runtimeAlive
  /\ envCount < MaxEnv
  /\ envCount' = envCount + 1
  /\ IF ListenerOpen THEN Commit(S, op, id)
     ELSE Commit(Cur, "ignored", id)
  /\ UNCHANGED <<runtimeAlive, initPending, loads>>

\* sendResponse(payload)
sendResponse(S, payload) == [S EXCEPT !.acks = Append(@, payload)]

\* case 'captureNote': captureNoteContext() reads the selection only.
MsgCaptureNote == Command(sendResponse(Cur, "noteData"), "captureNote", 0)

\* case 'highlightSaved': applyHighlightToSelection(message.noteId)
MsgHighlightSaved(id) ==
  Command(applyHighlightToSelection(Cur, id, ""), "highlightSaved", id)

\* case 'showSaveConfirmation'
MsgShowSaveConfirmation(id) ==
  Command(sendResponse(showSaveConfirmation(Cur, NoteOf(id)), "success"),
          "showSaveConfirmation", id)

\* case 'restoreNote': restoreNoteContext scrolls and arms the 600 ms timer.
MsgRestoreNote(id) ==
  Command(sendResponse(ArmTimer(Cur, "settle", id, SettleMs, "restore"),
                       "success"),
          "restoreNote", id)

\* case 'removeHighlight'
MsgRemoveHighlight(id) ==
  Command(sendResponse(removeHighlight(Cur, id), "success"),
          "removeHighlight", id)

\* Variant: the health check sends no answer.
MsgPingSilent == Command(Cur, "ping", 0)

\* case 'ping'
MsgPing == Command(sendResponse(Cur, "ok"), "ping", 0)

\* --- environment -------------------------------------------------------

Env(S, op) ==
  /\ envCount < MaxEnv
  /\ envCount' = envCount + 1
  /\ Commit(S, op, 0)
  /\ UNCHANGED <<runtimeAlive, initPending, loads>>

PageParas == {i \in 1..Len(dom) : dom[i].uid = 0}

\* The site renders another paragraph.
PageAppend(t) ==
  /\ Cardinality(PageParas) < MaxParas
  /\ Env(SetDom(Cur, Append(dom, Para(t))), "pageAppend")

\* The site removes a paragraph, with everything inside it.
PageRemove(i) ==
  /\ i \in PageParas
  /\ Env(SetDom(Cur, SpliceAt(dom, <<i>>, <<>>)), "pageRemove")

\* Ranges the user can select: an occurrence of the note text inside one
\* text node, or a selection across nodes.
SelectionsOf(t) ==
  {[kind |-> "leaf", path |-> AllPaths(dom)[k],
    s |-> IndexOf(NodeAt(dom, AllPaths(dom)[k]).text, t),
    e |-> IndexOf(NodeAt(dom, AllPaths(dom)[k]).text, t) + Len(t)] :
     k \in {j \in 1..Len(AllPaths(dom)) :
              /\ NodeAt(dom, AllPaths(dom)[j]).kind = "text"
              /\ Includes(NodeAt(dom, AllPaths(dom)[j]).text, t)}}

LeafSelections == SelectionsOf(Abc) \cup SelectionsOf(Xx)

UserSelect(sel) ==
  /\ sel # selection
  /\ Env([Cur EXCEPT !.sel = sel], "select")

\* The page starts to mutate continuously (a live feed): records reach the
\* observers more often than every 500 ms.  The mutations are outside the
\* content that is modelled.
ChurnStarts ==
  /\ ~churning
  /\ envCount < MaxEnv
  /\ envCount' = envCount + 1
  /\ churning' = TRUE
  /\ Finish(Cur, TRUE, "churnStart", 0)
  /\ UNCHANGED <<runtimeAlive, initPending, loads>>

\* The last mutation of the burst has just been observed.
ChurnStops ==
  /\ churning
  /\ churning' = FALSE
  /\ Finish(Cur, FALSE, "churnStop", 0)
  /\ UNCHANGED <<runtimeAlive, initPending, loads, envCount>>

\* In-page navigation of a single-page application changes location.href.
Navigate ==
  /\ ~urlStale
  /\ loads + Len(FilterSeq(timers, LAMBDA t : t.kind = "reload"))
       + (IF initPending THEN 1 ELSE 0) < MaxLoads
  /\ Env([Cur EXCEPT !.stale = TRUE], "navigate")

\* The extension is reloaded or removed: chrome.runtime.id disappears.
Invalidate ==
  /\ runtimeAlive
  /\ runtimeAlive' = FALSE
  /\ Commit(Cur, "invalidate", 0)
  /\ UNCHANGED <<initPending, loads, envCount>>

Selections == LeafSelections \cup {[NoSelection EXCEPT !.kind = "cross"]}

Next ==
  \/ InitialLoad
  \/ \E resp \in Responses : LoadReply(resp)
  \/ LoadInvalidated
  \/ LoadFailed
  \/ \E i \in 1..Len(timers) : RetryFires(i)
  \/ \E i \in 1..Len(timers) : DebounceFires(i)
  \/ \E i \in 1..Len(timers) : CapFires(i)
  \/ \E i \in 1..Len(timers) : ReloadFires(i)
  \/ \E i \in 1..Len(timers) : SettleFires(i)
  \/ \E i \in 1..Len(timers) : PulseFires(i)
  \/ \E i \in 1..Len(timers) : ElementRemoveFires(i)
  \/ Tick
  \/ MsgCaptureNote
  \/ MsgPing
  \/ \E id \in SavedNotes : MsgHighlightSaved(id)
  \/ \E id \in CommandNotes : MsgShowSaveConfirmation(id)
  \/ \E id \in CommandNotes : MsgRestoreNote(id)
  \/ \E id \in CommandNotes : MsgRemoveHighlight(id)
  \/ \E t \in PageTexts : PageAppend(t)
  \/ \E i \in 1..Len(dom) : PageRemove(i)
  \/ \E sel \in Selections : UserSelect(sel)
  \/ ChurnStarts
  \/ ChurnStops
  \/ Navigate
  \/ Invalidate

Spec == Init /\ [][Next]_vars

\* The event loop runs every timer whose delay has elapsed, time passes
\* while a timer is armed, the initial load starts, and the background
\* answers every request or the request fails.  The page and the user owe
\* nothing.  Timers, requests and the initial load are used up by their
\* steps, so weak fairness of those steps is stated through their enabling
\* conditions: none of them stays enabled for ever.
TimerDue == \E i \in 1..Len(timers) : Due(i)

FairSpec ==
  /\ Spec
  /\ WF_vars(Tick)
  /\ []<>(~TimerDue)
  /\ []<>(requests = 0)
  /\ []<>(~initPending)

\* ------------------------------------------------------------------------
\* The functions of the script applied to a tree on their own.  The trees
\* are page content as the site may render it; the one with a marker is the
\* shape tryApplyHighlight leaves behind.
\* ------------------------------------------------------------------------
Say == <<"x", "a", "b", "c", "y">>

WithId(n, h) == [n EXCEPT !.hid = h]

WithStyle(n, st) == [n EXCEPT !.style = st]

ProbeTrees ==
  { <<>>,
    <<Para(Say)>>,
    <<Para(Say), Para(Say \o Abc)>>,
    <<Para(<<" ", "a", " ", " ">>)>>,
    <<WithId(Para(<<"x", "x">>), "k"), Para(Abc \o Abc)>>,
    <<Element("div", <<Para(<<"x", "x">>), Para(Abc)>>), Para(Say)>>,
    <<WithId(Para(<<"x", "x">>), "k"), WithId(Para(Abc), "k")>>,
    <<Element("p", <<TextNode(<<"a", "b">>),
                     Element("b", <<TextNode(<<"c">>)>>)>>)>>,
    <<WithStyle(Para(Abc), "display"), Para(Say)>>,
    <<WithStyle(Element("div", <<Para(Abc)>>), "display")>>,
    <<Element("p", <<TextNode(<<"x">>),
                     createHighlightSpan(1, "", 9, <<TextNode(Abc)>>),
                     TextNode(<<>>)>>)>>,
    <<Element("script", <<TextNode(Abc)>>), Para(<<"x", "x">>)>> }

\* Stored notes: those of the page load, one whose path names a node that
\* is gone, and one whose path is the id shortcut.
ProbeNotes ==
  { NoteOf(1), NoteOf(2), NoteOf(3),
    [NoteOf(1) EXCEPT !.elementPath = AbsPath(<<[tag |-> "div", idx |-> 2]>>)],
    [NoteOf(1) EXCEPT !.elementPath = IdPath("k")] }

ProbeInputs ==
  {[NoProbe EXCEPT !.stage = "input", !.tree = t, !.out = t, !.note = n] :
     t \in ProbeTrees, n \in ProbeNotes}

ElementPaths(ks) ==
  {<<>>} \cup {AllPaths(ks)[i] : i \in {j \in 1..Len(AllPaths(ks)) :
                                          NodeAt(ks, AllPaths(ks)[j]).kind = "el"}}

ProbeState(t) == [Cur EXCEPT !.dom = t]

MainUnchanged ==
  UNCHANGED <<dom, selection, pendingHighlights, highlightObserver, connected,
              extensionContextValid, runtimeAlive, retryCount, timers,
              nextUid, nextObs, requests, initPending, urlStale, pulsing,
              churning, envCount, loads, notices, errors, calls, attempts,
              submitted, located, obsAge, lastOp, responses>>

Probed(R, stage, el) ==
  probe' = [probe EXCEPT !.stage = stage, !.el = el, !.out = R.dom,
                         !.res = R.res,
                         !.armed = Len(R.timers) - Len(timers)]

\* tryApplyHighlight(element, noteData) for an element of the tree
ProbeTryApply(el) ==
  /\ probe.stage = "input"
  /\ Probed(tryApplyHighlight(ProbeState(probe.tree), el, probe.note),
            "tried", el)
  /\ MainUnchanged

\* removeHighlight(noteData.id) after a successful tryApplyHighlight
ProbeRemove ==
  /\ probe.stage = "tried"
  /\ probe.res # 0
  /\ Probed([removeHighlight(ProbeState(probe.out), probe.note.id)
               EXCEPT !.res = probe.res],
            "removed", probe.el)
  /\ MainUnchanged

\* applyHighlightFromData(noteData)
ProbeResolve ==
  /\ probe.stage = "input"
  /\ Probed(applyHighlightFromData(ProbeState(probe.tree), probe.note, "load"),
            "resolved", <<>>)
  /\ MainUnchanged

\* getElementByXPath(getXPath(element)) for an element of the tree
ProbeXPath(el) ==
  /\ probe.stage = "input"
  /\ probe' = [probe EXCEPT
                 !.stage = "decoded", !.el = el,
                 !.xpath = getXPath(probe.tree, el),
                 !.node = getElementByXPath(probe.tree,
                                            getXPath(probe.tree, el))]
  /\ MainUnchanged

\* The values generateUUID can return, and the identifiers submitted data
\* can carry (0: the data has no id).
Uuids == {1, 2, 3}
GivenIds == {0, 1, 2}

\* Variant: an identifier of the submitted data is kept.
saveNoteKeepsId(store, data, u) ==
  IF \E i \in 1..Len(store) :
       store[i].id = (IF data.id # 0 THEN data.id ELSE u)
    THEN store
    ELSE Append(store, [id |-> IF data.id # 0 THEN data.id ELSE u,
                        gen |-> u, given |-> data.id, text |-> data.text])

\* saveNote(noteData) of the service worker, on the object store (keyPath
\* id): the id is replaced by the value u of generateUUID(), store.add
\* fails for a key that is in the store and nothing is saved then.
saveNote(store, data, u) ==
  IF \E i \in 1..Len(store) : store[i].id = u THEN store
  ELSE Append(store, [id |-> u, gen |-> u, given |-> data.id,
                      text |-> data.text])

ProbeSave(given, u) ==
  /\ probe.stage \in {"input", "saved"}
  /\ probe.tree = <<>>
  /\ Len(probe.saved) < MaxSaved
  /\ probe' = [probe EXCEPT
                 !.stage = "saved",
                 !.saved = saveNote(probe.saved,
                                    [id |-> given, text |-> probe.note.text],
                                    u)]
  /\ MainUnchanged

\* The script is injected, by the manifest or by ensureContentScriptReady.
ProbeInject ==
  /\ probe.stage \in {"input", "injected"}
  /\ probe.tree = <<>>
  /\ probe.page.runs < MaxInject
  /\ probe' = [probe EXCEPT !.stage = "injected",
                            !.page = contentScript(probe.page)]
  /\ MainUnchanged

\* A command is sent to the tab: every registered listener handles it.
ProbeCommand ==
  /\ probe.stage = "injected"
  /\ probe.page.handled = 0
  /\ probe' = [probe EXCEPT !.page.handled = probe.page.listeners]
  /\ MainUnchanged

\* jumpToNote calls waitForTabLoad for the tab.
ProbeWait ==
  /\ probe.stage = "input"
  /\ probe.tree = <<>>
  /\ probe' = [probe EXCEPT !.stage = "waiting",
                            !.wait = waitForTabLoad(probe.wait)]
  /\ MainUnchanged

ProbeTabUpdated(tab, status) ==
  /\ probe.stage = "waiting"
  /\ probe.wait.events < MaxTabEvents
  /\ probe' = [probe EXCEPT
                 !.wait = SawUpdate(onUpdated(probe.wait, tab, status),
                                    tab, status)]
  /\ MainUnchanged

\* Time passes until the next timer of the call is due.
ProbeWaitTick ==
  /\ probe.stage = "waiting"
  /\ WaitTimers(probe.wait) # <<>>
  /\ MinOf(WaitTimers(probe.wait)) > 0
  /\ probe' = [probe EXCEPT
                 !.wait.timeouts = Elapse(@, MinOf(WaitTimers(probe.wait))),
                 !.wait.sends = Elapse(@, MinOf(WaitTimers(probe.wait))),
                 !.wait.age = @ + MinOf(WaitTimers(probe.wait))]
  /\ MainUnchanged

\* The 500 ms callback: chrome.tabs.sendMessage(tabId, restoreNote).
ProbeSendFires ==
  /\ probe.stage = "waiting"
  /\ probe.wait.sends # <<>>
  /\ Head(probe.wait.sends) = 0
  /\ probe' = [probe EXCEPT !.wait.sends = Tail(@), !.wait.sent = @ + 1]
  /\ MainUnchanged

\* The 30 second callback: removeListener.
ProbeTimeoutFires ==
  /\ probe.stage = "waiting"
  /\ probe.wait.timeouts = <<0>>
  /\ probe' = [probe EXCEPT !.wait.timeouts = <<>>,
                            !.wait.listener = FALSE]
  /\ MainUnchanged

\* The actions and identifiers of the messages the listener is probed
\* with: the edit of a side notification sends updateNote from a tab, the
\* popup sends it without a tab.
MessageActions == {"getNotes", "updateNote", "deleteNote", "refresh"}

\* A message arrives at the service worker.
ProbeMessage(action, fromTab, id, text) ==
  /\ probe.stage \in {"input", "saved", "handled"}
  /\ probe.tree = <<>>
  /\ probe.bg.count < MaxMessages
  /\ LET r == onMessage(probe.bg, probe.saved,
                        [action |-> action, id |-> id, text |-> text],
                        fromTab)
     IN  probe' = [probe EXCEPT !.stage = "handled", !.saved = r.store,
                                !.bg = r.bg]
  /\ MainUnchanged

\* The selections a capture is probed with: none, every range inside a
\* text node, and the selection of all text of the page when it has more
\* than one text node.
ProbeSelections(ks) ==
  {NoSelection}
    \cup {[kind |-> IF a = b THEN "collapsed" ELSE "leaf",
           path |-> TextLeaves(ks)[k], s |-> a, e |-> b] :
            k \in 1..Len(TextLeaves(ks)), a \in 0..2, b \in 0..4}
    \cup (IF Len(TextLeaves(ks)) > 1
           THEN {[NoSelection EXCEPT !.kind = "cross"]} ELSE {})

\* captureNoteContext() with the selection sel on the tree
ProbeCapture(sel) ==
  /\ probe.stage = "input"
  /\ probe.note = NoteOf(1)
  /\ sel.kind \in {"leaf", "collapsed"} =>
       (sel.s <= sel.e /\ sel.e <= Len(NodeAt(probe.tree, sel.path).text))
  /\ probe' = [probe EXCEPT
                 !.stage = "captured", !.sel = sel,
                 !.cap = captureNoteContext(probe.tree, sel)]
  /\ MainUnchanged

SelectOn(ks, sel, note) ==
  applyHighlightToSelection([ProbeState(ks) EXCEPT !.sel = sel],
                            note.id, note.highlightColor)

\* applyHighlightToSelection(noteData.id, noteData.highlightColor) with
\* the selection sel on the tree
ProbeSelect(sel) ==
  /\ probe.stage = "input"
  /\ sel.kind \in {"leaf", "collapsed"} =>
       (sel.s <= sel.e /\ sel.e <= Len(NodeAt(probe.tree, sel.path).text))
  /\ probe' = [probe EXCEPT
                 !.stage = "selected", !.sel = sel,
                 !.out = SelectOn(probe.tree, sel, probe.note).dom,
                 !.res = SelectOn(probe.tree, sel, probe.note).res]
  /\ MainUnchanged

\* findElementContainingText(noteData.text) on the tree
ProbeFind ==
  /\ probe.stage = "input"
  /\ probe' = [probe EXCEPT
                 !.stage = "found",
                 !.node = findElementContainingText(probe.tree,
                                                    probe.note.text)]
  /\ MainUnchanged

\* Variant: the decoder is called without its try/catch.
ProbePathUncaught ==
  /\ probe.stage = "input"
  /\ probe' = [probe EXCEPT
                 !.stage = "path", !.xpath = probe.note.elementPath,
                 !.node = getElementByXPathUncaught(probe.tree,
                                                    probe.note.elementPath)]
  /\ MainUnchanged

\* getElementByXPath(noteData.elementPath) on the tree
ProbePath ==
  /\ probe.stage = "input"
  /\ probe' = [probe EXCEPT
                 !.stage = "path", !.xpath = probe.note.elementPath,
                 !.node = getElementByXPath(probe.tree,
                                            probe.note.elementPath)]
  /\ MainUnchanged

ProbeInit == Booted /\ envCount = 0 /\ dom = <<>> /\ probe \in ProbeInputs

ProbeNext ==
  \/ \E el \in ElementPaths(probe.tree) : ProbeTryApply(el)
  \/ ProbeRemove
  \/ ProbeResolve
  \/ \E el \in ElementPaths(probe.tree) : ProbeXPath(el)
  \/ ProbePath
  \/ ProbeFind
  \/ ProbeInject
  \/ ProbeCommand
  \/ ProbeWait
  \/ \E tab \in Tabs, status \in TabStatuses : ProbeTabUpdated(tab, status)
  \/ ProbeWaitTick
  \/ ProbeSendFires
  \/ ProbeTimeoutFires
  \/ \E sel \in ProbeSelections(probe.tree) : ProbeCapture(sel)
  \/ \E sel \in ProbeSelections(probe.tree) : ProbeSelect(sel)
  \/ \E given \in GivenIds, u \in Uuids : ProbeSave(given, u)
  \/ \E action \in MessageActions, fromTab \in BOOLEAN, id \in Uuids,
        text \in {<<>>, probe.note.text} :
       ProbeMessage(action, fromTab, id, text)

ProbeSpec == ProbeInit /\ [][ProbeNext]_vars

\* ------------------------------------------------------------------------
\* Properties
\* ------------------------------------------------------------------------

RetryArmed(n) ==
  \E i \in 1..Len(timers) : timers[i].kind = "retry" /\ timers[i].arg = n

CapTimers == FilterSeq(timers, LAMBDA t : t.kind = "cap")

InPending(n) ==
  \E i \in 1..Len(pendingHighlights) : pendingHighlights[i] = n

EmptyTextNotes == {n \in NoteIds : NoteOf(n).text = <<>>}

\* C1: in every reachable state at most one marker element carries a given
\* note identifier, whatever the interleaving of page load, retry timers,
\* batch passes, restore and the save commands.
C1_OneMarkerPerNote == \A n \in NoteIds : MarkerCount(dom, n) <= 1

\* C2: a note submitted once through the page-load path, and by no other
\* path, whose text never was locatable has, once no retry timer is armed
\* for it, received exactly 3 timer-driven attempts and is expired (its
\* retry count has reached the ceiling).
C2_ThreeAttemptsThenExpired ==
  \A n \in NoteIds :
    (/\ submitted[n] = [load |-> 1, restore |-> 0]
     /\ n \notin located
     /\ ~RetryArmed(n))
      => (attempts[n] = maxRetries /\ retryCount[n] >= maxRetries)

\* C3: no retry timer is ever armed from the restore entry point, and a
\* restore that did not resolve its note has raised the "could not
\* locate" notice.
C3_RestoreArmsNoRetry ==
  /\ \A i \in 1..Len(timers) :
        ~(timers[i].kind = "retry" /\ timers[i].via = "restore")
  /\ (lastOp.op = "restore" /\ calls # <<>> /\ calls[1].res = 0)
       => ("not-found" \in notices /\ calls[1].armed = 0)

\* C4: a note whose text is empty never gets a marker and never has a
\* retry timer armed for it.
C4_EmptyTextRejected ==
  \A n \in EmptyTextNotes : MarkerCount(dom, n) = 0 /\ ~RetryArmed(n)

\* C5: once loadPageHighlights has found the extension context
\* unavailable, no highlight observer is attached and no retry timer
\* performs a resolution attempt.
C5_InvalidatedStopsAll ==
  ~extensionContextValid =>
     (/\ highlightObserver = NoObserver
      /\ connected = {}
      /\ lastOp.op # "retry")

\* C6: an attached highlight observer is never older than 30 seconds, also
\* while the page mutates continuously and nothing resolves.
C6_ObserverCapped ==
  (connected # {} \/ highlightObserver # NoObserver)
     => obsAge <= ObserverCapMs

\* C6 witness: under continuous mutation, with a note still pending, the
\* observer has just been disconnected by its 30 second timer.
C6_Witness ==
  /\ lastOp.op = "cap"
  /\ churning
  /\ obsAge = ObserverCapMs
  /\ connected = {}
  /\ highlightObserver = NoObserver
  /\ pendingHighlights # <<>>

\* C7: at most one highlight observer is attached at any time, and a page
\* load that asks for an observer while one is active creates none and
\* arms no further 30 second timer.
C7_SingleObserver ==
  /\ [](Cardinality(connected) <= 1 /\ connected \subseteq {highlightObserver})
  /\ [][(highlightObserver # NoObserver /\ lastOp'.op = "loadReply")
          => (/\ nextObs' = nextObs
              /\ connected' = connected
              /\ CapTimers' = CapTimers)]_vars

\* C7 witness: a page load left notes pending while the observer of an
\* earlier load was still attached.
C7_Witness ==
  /\ lastOp.op = "loadReply"
  /\ pendingHighlights # <<>>
  /\ highlightObserver # NoObserver
  /\ loads = 2
  /\ nextObs = 2

\* C8: whenever the highlight observer is attached the pending set is
\* non-empty.
C8_ObserverScopedToPending ==
  highlightObserver # NoObserver => pendingHighlights # <<>>

\* C9: every note in the pending set eventually leaves it.
C9_PendingEventuallyLeaves ==
  \A n \in NoteIds : InPending(n) ~> ~InPending(n)

\* C10: a call of applyHighlightFromData for a note that already has a
\* marker returns that marker, leaves the tree as it is and arms no timer.
C10_SecondCallReturnsExisting ==
  \A k \in 1..Len(calls) :
    calls[k].existing # 0 =>
      (/\ calls[k].res = calls[k].existing
       /\ ~calls[k].touched
       /\ calls[k].armed = 0)

\* C10 witness: a restore of note 1 after the page load installed its
\* marker; the tree holds exactly that one marker.
C10_Witness ==
  /\ lastOp = [op |-> "restore", id |-> 1]
  /\ submitted[1].load >= 1
  /\ calls # <<>>
  /\ calls[1].existing # 0
  /\ MarkerCount(dom, 1) = 1

\* C11: after tryApplyHighlight succeeded in a container and
\* removeHighlight was called with the same identifier, the text content
\* of the container is what it was before and the tree holds no marker
\* with that identifier.
C11_ApplyRemoveRoundTrip ==
  probe.stage = "removed" =>
    (/\ TextContent(KidsAt(probe.out, probe.el))
          = TextContent(KidsAt(probe.tree, probe.el))
     /\ TextContent(probe.out) = TextContent(probe.tree)
     /\ MarkerCount(probe.out, probe.note.id) = 0)

CommandOps ==
  {"captureNote", "highlightSaved", "showSaveConfirmation", "restoreNote",
   "removeHighlight", "ping"}

\* C12: each of the six commands handled by the listener while the
\* extension context is valid is answered with exactly one payload.
C12_EveryCommandAcknowledged ==
  lastOp.op \in CommandOps => Len(responses) = 1

IsPrefix(a, b) == Len(a) <= Len(b) /\ SubSeq(b, 1, Len(a)) = a

\* The markers of the note whose content is exactly the text.
MarkersAround(ks, id, text) ==
  {i \in 1..Len(MarkerPaths(ks, id)) :
     TextContent(NodeAt(ks, MarkerPaths(ks, id)[i]).kids) = text}

ProbeExisting == querySelectorNote(probe.tree, probe.note.id)

ProbeByPath == getElementByXPath(probe.tree, probe.note.elementPath)

ProbeByText == findElementContainingText(probe.tree, probe.note.text)

\* C14: applyHighlightFromData returns the existing marker if there is
\* one; otherwise the container is the node the path decodes to, and the
\* node of the text search only when the path decodes to nothing; the
\* result is null exactly when there is no container or no single text
\* leaf of the container contains the text, and a new marker lies inside
\* the container.
C14_ResolutionPrecedence ==
  probe.stage = "resolved" =>
    LET container == IF ProbeByPath # NoNode THEN ProbeByPath ELSE ProbeByText
    IN IF ProbeExisting # NoNode
         THEN /\ probe.res = NodeAt(probe.tree, ProbeExisting).uid
              /\ probe.out = probe.tree
         ELSE /\ (probe.res = 0) <=>
                   (\/ container = NoNode
                    \/ FirstLeafWith(probe.tree, container, probe.note.text)
                         = NoNode)
              /\ probe.res = 0 => probe.out = probe.tree
              /\ probe.res # 0 =>
                   /\ MarkerCount(probe.out, probe.note.id) = 1
                   /\ IsPrefix(container,
                               querySelectorNote(probe.out, probe.note.id))

\* C14 witness: the path decodes to an element that does not hold the
\* text, the text is elsewhere in the document, and the result is null.
C14_Witness ==
  /\ probe.stage = "resolved"
  /\ ProbeExisting = NoNode
  /\ ProbeByPath # NoNode
  /\ ProbeByText # NoNode
  /\ ProbeByText # ProbeByPath
  /\ probe.res = 0

\* C15: when the stored path decodes to nothing and the text, of length 3
\* or more, is in a visible text leaf outside script content, the call
\* succeeds and a marker of the note wraps the text.
C15_TextSearchFallback ==
  (/\ probe.stage = "resolved"
   /\ ProbeByPath = NoNode
   /\ Len(probe.note.text) >= MinSearchLen
   /\ \E i \in 1..Len(AllPaths(probe.tree)) :
         AcceptsTextNode(probe.tree, AllPaths(probe.tree)[i], probe.note.text))
    => (/\ probe.res # 0
        /\ MarkersAround(probe.out, probe.note.id, probe.note.text) # {})

\* C15 witness: the path names a node that is gone, the marker was
\* installed by the text search in a tree that had no marker.
C15_Witness ==
  /\ probe.stage = "resolved"
  /\ probe.note.elementPath.kind = "abs"
  /\ ProbeByPath = NoNode
  /\ ProbeExisting = NoNode
  /\ probe.res # 0
  /\ probe.out # probe.tree
  /\ MarkersAround(probe.out, probe.note.id, probe.note.text) # {}

\* C16: every failed resolution of a note that had no retry yet arms one
\* retry timer, whether no container was found or the container was found
\* and no single text leaf of it holds the text.
C16_FirstFailureSchedulesRetry ==
  (/\ probe.stage = "resolved"
   /\ probe.res = 0)
    => probe.armed = 1

\* The script on a busy page: BusyEnv environment events in a behaviour
\* instead of MaxEnv (the guards count envCount up to MaxEnv).
BusyInit == Booted /\ envCount = MaxEnv - BusyEnv /\ probe = NoProbe

BusySpec == BusyInit /\ [][Next]_vars

\* The same event loop with the two environment events of BusySpec.
BusyFairSpec ==
  /\ BusySpec
  /\ WF_vars(Tick)
  /\ []<>(~TimerDue)
  /\ []<>(requests = 0)
  /\ []<>(~initPending)

\* The debounce timers that are armed.
DebounceTimers == FilterSeq(timers, LAMBDA t : t.kind = "debounce")

\* C17: at most one debounced batch pass is armed at any time, over every
\* sequence of observer attach, disconnect and re-attach.
C17_OneDebouncedPass == Len(DebounceTimers) <= 1

\* C18: after a debounced batch pass the pending list is the previous
\* pending list without the notes that have a marker in the page: notes
\* that were resolved or already marked are removed, notes that failed
\* are kept in their order, no note is added.
C18_BatchKeepsUnmarked ==
  [][lastOp'.op = "batch" =>
       pendingHighlights' =
         FilterSeq(pendingHighlights, LAMBDA n : MarkerCount(dom', n) = 0)]_vars

\* C18 witness: a batch pass has resolved note 1 and kept another note.
C18_Witness ==
  /\ lastOp.op = "batch"
  /\ pendingHighlights # <<>>
  /\ MarkerCount(dom, 1) = 1
  /\ ~InPending(1)

\* C19: decoding the path computed for an attached element gives that
\* element back, in every tree shape, with ids and same-tag siblings.
C19_XPathRoundTrip ==
  probe.stage = "decoded" => probe.node = probe.el

\* Document order of two nodes of which none is an ancestor of the other.
PathLess(p, q) ==
  \E k \in 1..Len(p) :
    /\ k <= Len(q)
    /\ SubSeq(p, 1, k - 1) = SubSeq(q, 1, k - 1)
    /\ p[k] < q[k]

\* The text nodes below the element el of tree ks that contain the text.
LeavesWith(ks, el, text) ==
  FilterSeq(PathsUnder(ks, el),
            LAMBDA q : NodeAt(ks, q).kind = "text"
                       /\ Includes(NodeAt(ks, q).text, text))

Sibling(m, d) == Parent(m) \o <<m[Len(m)] + d>>

\* The marker tryApplyHighlight returned, in the tree it left.
ProbeMarker == Head(UidPaths(probe.out, probe.res))

\* C20: a successful tryApplyHighlight returns one new marker of the note
\* inside the container; its content is the note text; the text node it
\* was cut from reads the same around it (left part, text, right part) and
\* the text of the whole page is unchanged; no text node of the container
\* before the marker contains the text, so the marker wraps the first
\* occurrence in the first text node that contains it.
C20_WrapsFirstOccurrence ==
  (probe.stage = "tried" /\ probe.res # 0) =>
    /\ Len(UidPaths(probe.out, probe.res)) = 1
    /\ NodeAt(probe.out, ProbeMarker).note = probe.note.id
    /\ MarkerCount(probe.out, probe.note.id)
         = MarkerCount(probe.tree, probe.note.id) + 1
    /\ IsPrefix(probe.el, ProbeMarker)
    /\ TextContent(NodeAt(probe.out, ProbeMarker).kids) = probe.note.text
    /\ TextContent(probe.out) = TextContent(probe.tree)
    /\ ValidPath(probe.tree, Sibling(ProbeMarker, -1))
    /\ NodeAt(probe.tree, Sibling(ProbeMarker, -1)).kind = "text"
    /\ NodeAt(probe.out, Sibling(ProbeMarker, -1)).kind = "text"
    /\ NodeAt(probe.out, Sibling(ProbeMarker, 1)).kind = "text"
    /\ NodeAt(probe.tree, Sibling(ProbeMarker, -1)).text
         = NodeAt(probe.out, Sibling(ProbeMarker, -1)).text
           \o probe.note.text
           \o NodeAt(probe.out, Sibling(ProbeMarker, 1)).text
    /\ probe.note.text # <<>> =>
         \A i \in 1..Len(LeavesWith(probe.out, probe.el, probe.note.text)) :
           ~PathLess(LeavesWith(probe.out, probe.el, probe.note.text)[i],
                     ProbeMarker)

\* C20 witness: the container holds the text in two text nodes, and the
\* marker has the rest of the first of them on both sides.
C20_Witness ==
  /\ probe.stage = "tried"
  /\ probe.res # 0
  /\ probe.note.text = Abc
  /\ Len(LeavesWith(probe.tree, probe.el, Abc)) >= 2
  /\ NodeAt(probe.out, Sibling(ProbeMarker, -1)).text = <<"x">>
  /\ NodeAt(probe.out, Sibling(ProbeMarker, 1)).text = <<"y">>

\* C21: getElementByXPath returns a node of the tree or null for every
\* path, null for the empty and the malformed path, never the exception
\* of the evaluator, and the tree is as it was.
C21_DecodeNeverRaises ==
  probe.stage = "path" =>
    /\ probe.node # Thrown
    /\ probe.xpath.kind = "bad" => probe.node = NoNode
    /\ probe.node = NoNode \/ ValidPath(probe.tree, probe.node)
    /\ probe.out = probe.tree

\* C21 witness: the malformed path has been decoded to null.
C21_Witness ==
  /\ probe.stage = "path"
  /\ probe.xpath = BadPath
  /\ probe.node = NoNode

\* The anchors whose text is shorter than the minimum of the text search.
ShortNotes == {n \in NoteIds : Len(NoteOf(n).text) < MinSearchLen}

\* The step has added a marker of note n to the page.
GainsMarker(n) == MarkerCount(dom', n) > MarkerCount(dom, n)

\* The step has made an applyHighlightFromData call for note n that
\* returned a marker.
ResolvedByCall(n) ==
  \E i \in 1..Len(calls') : calls'[i].id = n /\ calls'[i].res # 0

\* C22 as stated: a marker of an anchor with text shorter than 3 is added
\* only by an applyHighlightFromData call (page load or restore), the
\* text search never finds such a text.
C22_ShortOnlyByPath ==
  /\ [](\A n \in ShortNotes :
          findElementContainingText(dom, NoteOf(n).text) = NoNode)
  /\ [][\A n \in ShortNotes :
          GainsMarker(n) =>
            /\ lastOp'.op \in {"loadReply", "restore"}
            /\ ResolvedByCall(n)]_vars

\* C22 amended: the text search never finds a text shorter than 3, and a
\* marker of such an anchor is added only by an applyHighlightFromData
\* call or around the live selection (highlightSaved,
\* showSaveConfirmation), never by the retry callback or the batch pass.
C22_ShortNeverBySearch ==
  /\ [](\A n \in ShortNotes :
          findElementContainingText(dom, NoteOf(n).text) = NoNode)
  /\ [][\A n \in ShortNotes :
          GainsMarker(n) =>
            \/ lastOp'.op \in {"loadReply", "restore"} /\ ResolvedByCall(n)
            \/ /\ lastOp' \in {[op |-> "highlightSaved", id |-> n],
                                [op |-> "showSaveConfirmation", id |-> n]}
               /\ selection.kind = "leaf"]_vars

\* C22 witness: a batch pass has run while the two-character text of the
\* pending note 4 is in a visible text node, and the note has no marker.
C22_Witness ==
  /\ lastOp.op = "batch"
  /\ InPending(4)
  /\ MarkerCount(dom, 4) = 0
  /\ \E i \in 1..Len(AllPaths(dom)) :
        AcceptsTextNode(dom, AllPaths(dom)[i], Xx)

\* The node at p or one of its ancestors below body is hidden.
InHiddenSubtree(ks, p) ==
  \E n \in 1..Len(p) :
    NodeAt(ks, SubSeq(p, 1, n)).style \in {"display", "visibility"}

\* The node at p or one of its ancestors is a script, style or noscript.
InNonContent(ks, p) ==
  \E n \in 1..Len(p) : NodeAt(ks, SubSeq(p, 1, n)).tag \in NonContentTags

\* The text nodes of the tree outside hidden and non-content subtrees
\* whose data contains the text, in document order.
VisibleLeavesWith(ks, text) ==
  FilterSeq(AllPaths(ks),
            LAMBDA q : /\ NodeAt(ks, q).kind = "text"
                       /\ ~InHiddenSubtree(ks, Parent(q))
                       /\ ~InNonContent(ks, Parent(q))
                       /\ Includes(NodeAt(ks, q).text, text))

\* C23: the element findElementContainingText returns is not inside a
\* hidden subtree nor inside script, style or noscript; it is the parent
\* of the first text node outside such subtrees that contains the text.
C23_SearchSkipsHiddenSubtrees ==
  (probe.stage = "found" /\ probe.node # NoNode) =>
    /\ ~InHiddenSubtree(probe.tree, probe.node)
    /\ ~InNonContent(probe.tree, probe.node)
    /\ VisibleLeavesWith(probe.tree, probe.note.text) # <<>>
    /\ probe.node = Parent(Head(VisibleLeavesWith(probe.tree,
                                                  probe.note.text)))

\* The marker elements of the page.
AllMarkers ==
  FilterSeq(AllPaths(dom),
            LAMBDA q : NodeAt(dom, q).kind = "el" /\ NodeAt(dom, q).note # 0)

\* The colour a marker of the note is expected to record.
ColourOf(n) ==
  IF NoteOf(n).highlightColor # "" THEN NoteOf(n).highlightColor
  ELSE DefaultColor

\* C24: every marker in the page records the id of a note and the colour
\* of that note, the default colour when the note has none.
C24_MarkerRecordsIdAndColour ==
  \A i \in 1..Len(AllMarkers) :
    /\ NodeAt(dom, AllMarkers[i]).note \in NoteIds
    /\ NodeAt(dom, AllMarkers[i]).color
         = ColourOf(NodeAt(dom, AllMarkers[i]).note)

\* The step has shown a toast (an element created by this step).
ToastShown ==
  \E i \in 1..Len(dom') :
    dom'[i].cls = "mozhii-toast" /\ dom'[i].uid >= nextUid

\* The step has armed a pulse timer of 2.5 s for the element u.
PulseArmed(u) ==
  /\ \E j \in 1..Len(timers') :
        /\ timers'[j].kind = "pulse" /\ timers'[j].arg = u
        /\ timers'[j].delay = PulseMs /\ timers'[j].rem = PulseMs
  /\ Len(FilterSeq(timers', LAMBDA t : t.kind = "pulse"))
       = Len(FilterSeq(timers, LAMBDA t : t.kind = "pulse")) + 1

\* C25: the restoreNote command resolves nothing and arms the 600 ms
\* timer; the resolution runs as the callback of that timer when the
\* 600 ms have elapsed, with one applyHighlightFromData call for the note;
\* then either the returned marker pulses and a 2.5 s timer is armed for
\* it and no toast is shown, or the result is null, the toast is shown
\* and nothing pulses; a pulse ends only by its 2.5 s timer.
C25_RestoreOrderAndOutcome ==
  [][/\ lastOp'.op = "restoreNote" =>
          /\ calls' = <<>>
          /\ pulsing' = pulsing
          /\ ~ToastShown
          /\ \E j \in 1..Len(timers') :
                /\ timers'[j].kind = "settle" /\ timers'[j].arg = lastOp'.id
                /\ timers'[j].rem = SettleMs
     /\ lastOp'.op = "restore" =>
          /\ \E i \in 1..Len(timers) :
                /\ Due(i) /\ timers[i].kind = "settle"
                /\ timers[i].delay = SettleMs /\ timers[i].arg = lastOp'.id
          /\ Len(calls') = 1
          /\ calls'[1].id = lastOp'.id
          /\ IF calls'[1].res # 0
               THEN /\ calls'[1].res \in pulsing'
                    /\ PulseArmed(calls'[1].res)
                    /\ ~ToastShown
               ELSE /\ ToastShown
                    /\ "not-found" \in notices'
                    /\ pulsing' = pulsing
                    /\ FilterSeq(timers', LAMBDA t : t.kind = "pulse")
                         = FilterSeq(timers, LAMBDA t : t.kind = "pulse")
     /\ pulsing' # pulsing =>
          \/ lastOp'.op = "restore" /\ pulsing \subseteq pulsing'
          \/ /\ lastOp'.op = "pulseEnd"
             /\ \E i \in 1..Len(timers) :
                   /\ Due(i) /\ timers[i].kind = "pulse"
                   /\ timers[i].delay = PulseMs
                   /\ pulsing' = pulsing \ {timers[i].arg}]_vars

\* C25 witness (success): the pulse of the marker restored for note 1 has
\* ended, 2.5 s after it was given.
C25_Witness ==
  /\ lastOp.op = "pulseEnd"
  /\ MarkerCount(dom, 1) = 1
  /\ pulsing = {}
  /\ "not-found" \notin notices

\* C26: the notes in the store have pairwise distinct ids, each note saved
\* through saveNote (gen is not 0) has the value generated for it and not
\* the id of the submitted data; a resolution
\* returns a marker that carries the id of its note and leaves the markers
\* of the other notes as they are, also when another note with the same
\* text has a marker in the page.
C26_DistinctIdsAndLookup ==
  /\ \A i, j \in 1..Len(probe.saved) :
        i # j => probe.saved[i].id # probe.saved[j].id
  /\ \A i \in 1..Len(probe.saved) :
       probe.saved[i].gen # 0 => probe.saved[i].id = probe.saved[i].gen
  /\ (probe.stage = "resolved" /\ probe.res # 0) =>
       /\ UidPaths(probe.out, probe.res) # <<>>
       /\ NodeAt(probe.out, Head(UidPaths(probe.out, probe.res))).note
            = probe.note.id
       /\ \A n \in NoteIds \ {probe.note.id} :
            MarkerCount(probe.out, n) = MarkerCount(probe.tree, n)

\* C26 witness: two notes with the same text are in the store, the second
\* was submitted with the id of the first.
C26_Witness ==
  /\ Len(probe.saved) = 2
  /\ probe.saved[1].text = probe.saved[2].text
  /\ probe.saved[2].given = probe.saved[1].id

\* C27: capture returns null exactly when there is no selection or the
\* trimmed selected text is empty; an anchor it returns has a non-empty
\* text without white space at its ends and an offset in the container
\* that is 0 or more.
C27_CaptureTextAndOffset ==
  probe.stage = "captured" =>
    /\ probe.cap.null <=>
         (\/ probe.sel.kind = "none"
          \/ Trim(SelectedText(probe.tree, probe.sel)) = <<>>)
    /\ ~probe.cap.null =>
         /\ probe.cap.text # <<>>
         /\ Head(probe.cap.text) \notin WhiteSpace
         /\ probe.cap.text[Len(probe.cap.text)] \notin WhiteSpace
         /\ probe.cap.textInParentOffset >= 0

\* C28: a removeHighlight command for a note that has no marker in the
\* page raises no error and leaves the tree, the pending list, the
\* observer, the retry counters and the timers as they were (while the
\* page mutates on its own, the observer callback of the same task may arm
\* the debounce timer).
C28_RemoveWithoutMarkerIsNoOp ==
  [][(lastOp'.op = "removeHighlight" /\ MarkerCount(dom, lastOp'.id) = 0) =>
       /\ dom' = dom
       /\ pendingHighlights' = pendingHighlights
       /\ highlightObserver' = highlightObserver
       /\ connected' = connected
       /\ retryCount' = retryCount
       /\ errors' = errors
       /\ pulsing' = pulsing
       /\ (churning \/ timers' = timers)]_vars

\* C28 witness: the command has been handled for note 1 while the note is
\* pending without a marker, the observer is attached and timers are armed.
C28_Witness ==
  /\ lastOp = [op |-> "removeHighlight", id |-> 1]
  /\ MarkerCount(dom, 1) = 0
  /\ InPending(1)
  /\ highlightObserver # NoObserver
  /\ timers # <<>>
  /\ errors = 0

\* C29: a marker application that fails leaves the document as it was.
\* Whenever tryApplyHighlight returns null, or applyHighlightToSelection
\* returns false, the tree after the call equals the tree before it: no
\* text removed or moved, no marker inserted.
C29_FailedApplicationLeavesDocument ==
  (probe.stage \in {"tried", "selected"} /\ probe.res = 0) =>
    probe.out = probe.tree

\* C29 witness: tryApplyHighlight has returned null on an element whose
\* text content contains the note's text, split over two text nodes.
C29_Witness ==
  /\ probe.stage = "tried"
  /\ probe.res = 0
  /\ probe.note.text # <<>>
  /\ Includes(TextContent(KidsAt(probe.tree, probe.el)), probe.note.text)
  /\ probe.out = probe.tree
  /\ TextLeaves(probe.tree) # <<>>
\* The retry timers of note n, and the delays of the retry timers of n
\* that are due.
RetryTimersOf(ts, n) ==
  SelectSeq(ts, LAMBDA t : t.kind = "retry" /\ t.arg = n)

FiredRetryDelays(n) ==
  {timers[i].delay : i \in {j \in 1..Len(timers) :
      Due(j) /\ timers[j].kind = "retry" /\ timers[j].arg = n}}

FailedCallFor(cs, n) ==
  \E i \in 1..Len(cs) : cs[i].id = n /\ cs[i].res = 0 /\ cs[i].armed = 1

ArmedWithDelay(ts, n, d) ==
  \E i \in 1..Len(ts) :
     /\ ts[i].kind = "retry" /\ ts[i].arg = n
     /\ ts[i].delay = d /\ ts[i].rem = d

\* C30 as stated: the k-th timer-driven attempt for an anchor, counted over
\* the life of the page, runs from a timer of k seconds.
C30_KthAttemptAfterKSeconds ==
  [][\A n \in NoteIds :
       (lastOp'.op = "retry" /\ lastOp'.id = n
          /\ attempts'[n] = attempts[n] + 1) =>
         FiredRetryDelays(n) = {RetryBaseMs * attempts'[n]}]_vars

\* C30: the delay of every timer-driven attempt is 1 s x (retryCount + 1),
\* from the retry count of the anchor when the timer is armed; the count
\* stays within 0..3, grows only in a step with a failed resolution of
\* that anchor, and a retry timer is armed only with such an increment.
C30_RetryDelayFromCount ==
  [][\A n \in NoteIds :
       /\ retryCount[n] \in 0..maxRetries
       /\ retryCount'[n] \in 0..maxRetries
       /\ retryCount'[n] > retryCount[n] =>
            /\ FailedCallFor(calls', n)
            /\ \A k \in (retryCount[n] + 1)..retryCount'[n] :
                  ArmedWithDelay(timers', n, RetryBaseMs * k)
            /\ Len(RetryTimersOf(timers', n)) =
                 Len(RetryTimersOf(timers, n))
                   + retryCount'[n] - retryCount[n]
       /\ retryCount'[n] <= retryCount[n] =>
            Len(RetryTimersOf(timers', n)) <= Len(RetryTimersOf(timers, n))]_vars

\* C30 witness: after a first timer-driven attempt of note 1 a second
\* failed resolution has armed the 2 second timer, which is now due.
C30_Witness ==
  /\ attempts[1] = 1
  /\ retryCount[1] = 2
  /\ Len(RetryTimersOf(timers, 1)) = 1
  /\ RetryTimersOf(timers, 1)[1].delay = 2 * RetryBaseMs
  /\ RetryTimersOf(timers, 1)[1].rem = 0
\* The answer a load has just worked through, and its notes without a
\* marker (in the tree; by the result of the call).
AnsweredList(cs) == [i \in 1..Len(cs) |-> cs[i].id]

Unmarked(ks, list) == SelectSeq(list, LAMBDA n : MarkerCount(ks, n) = 0)

FailedCalls(cs) == AnsweredList(SelectSeq(cs, LAMBDA c : c.res = 0))

\* C31: when loadPageHighlights has worked through an answer, the pending
\* list is exactly the notes of that answer for which resolution gave no
\* marker, whatever was pending before; with a non-empty pending list an
\* observer is attached, with an empty one none is set up by the load.
C31_LoadLeavesUnresolvedPending ==
  [][lastOp'.op = "loadReply" =>
       /\ pendingHighlights' = FailedCalls(calls')
       /\ pendingHighlights' = Unmarked(dom', AnsweredList(calls'))
       /\ pendingHighlights' # <<>> =>
            (highlightObserver' # NoObserver
               /\ highlightObserver' \in connected')
       /\ pendingHighlights' = <<>> =>
            (highlightObserver' = highlightObserver /\ nextObs' = nextObs
               /\ connected' = connected)]_vars

\* C31 witness: the first load was answered with notes 1 and 2, of which
\* note 2 got a marker and note 1 stayed pending; the second load was
\* answered with note 3 alone, which is now the whole pending list.
C31_Witness ==
  /\ lastOp.op = "loadReply"
  /\ loads = 2
  /\ AnsweredList(calls) = <<3>>
  /\ submitted[1].load = 1
  /\ MarkerCount(dom, 1) = 0
  /\ MarkerCount(dom, 2) = 1
  /\ pendingHighlights = <<3>>
  /\ highlightObserver # NoObserver
\* The 30 second callback has disconnected the last observer attached, and
\* none has been attached since.
CappedOut ==
  highlightObserver = NoObserver /\ connected = {} /\ obsAge = ObserverCapMs

\* C32: once the 30 second cap has disconnected the observer, the debounced
\* callback runs no resolution pass over the pending list and creates no
\* marker.
C32_CapCancelsBatch ==
  [][(CappedOut /\ lastOp'.op = "batch") =>
       (pendingHighlights = <<>> /\ dom' = dom)]_vars
\* C33: a 30 second callback disconnects an attached observer only when
\* that observer has been attached for 30 seconds: the timer of an earlier
\* observer does not cut short a later one.
C33_CapOnlyForOwnObserver ==
  [][(lastOp'.op = "cap" /\ highlightObserver # NoObserver
        /\ highlightObserver' = NoObserver) =>
       obsAge = ObserverCapMs]_vars
\* C34: the debounced callback never raises: it never calls disconnect on
\* a highlightObserver that is null.
C34_BatchNeverThrows == errors = 0
\* The text of pending note n lies in a visible text node and the debounce
\* timer of the attached observer has run its 500 ms: every notification
\* clears the timer and arms it again, so no mutation was notified
\* meanwhile.
Notified(n) ==
  /\ InPending(n)
  /\ Len(NoteOf(n).text) >= 3
  /\ findElementContainingText(dom, NoteOf(n).text) # NoNode
  /\ highlightObserver # NoObserver
  /\ \E i \in 1..Len(timers) :
        /\ timers[i].kind = "debounce"
        /\ timers[i].arg = highlightObserver
        /\ timers[i].rem = 0

\* A further mutation has just been notified.
Renotified ==
  \E i \in 1..Len(timers) :
     timers[i].kind = "debounce" /\ timers[i].rem = timers[i].delay

Installed(n) == MarkerCount(dom, n) >= 1 /\ ~InPending(n)

PendingLocatable(n) ==
  /\ InPending(n)
  /\ Len(NoteOf(n).text) >= 3
  /\ findElementContainingText(dom, NoteOf(n).text) # NoNode

C36_MarkersNeverNest ==
  \A i, j \in 1..Len(AllMarkers) :
     (i # j /\ NodeAt(dom, AllMarkers[i]).note # NodeAt(dom, AllMarkers[j]).note)
       => ~IsPrefix(AllMarkers[i], AllMarkers[j])
\* C37: however often the content script is injected into a page, one
\* message listener is registered, loadPageHighlights is started once and
\* one navigation observer is attached, so a command is handled by one
\* listener.
C37_InitializedOnce ==
  probe.page.runs >= 1 =>
    /\ probe.page.listeners = 1
    /\ probe.page.loadsStarted = 1
    /\ probe.page.navObservers = 1
    /\ probe.page.handled <= 1

\* C37 witness: the script has run three times in the page and a command
\* has been handled since.
C37_Witness ==
  /\ probe.stage = "injected"
  /\ probe.page.runs = 3
  /\ probe.page.handled = 1
  /\ probe.page.listeners = 1

\* C38: for a call of waitForTabLoad the restoreNote command is sent at
\* most once and only after a 'complete' event of the tab; the listener is
\* registered only while no 'complete' event of the tab has been seen and
\* the 30 seconds of the call have not run out.
C38_RestoreSentOnceAfterComplete ==
  probe.wait.called =>
    /\ probe.wait.sent + Len(probe.wait.sends) <= 1
    /\ (probe.wait.sent + Len(probe.wait.sends) >= 1
          => probe.wait.completes >= 1)
    /\ probe.wait.listener =>
         /\ probe.wait.completes = 0
         /\ probe.wait.timeouts # <<>>
         /\ probe.wait.age + probe.wait.timeouts[1] = TabWaitMs

\* C38 witness: the tab has reported 'complete' twice, the command was
\* sent once and the listener is removed.
C38_Witness ==
  /\ probe.stage = "waiting"
  /\ probe.wait.completes = 2
  /\ probe.wait.sent = 1
  /\ probe.wait.sends = <<>>
  /\ ~probe.wait.listener
\* C39: when the message handler of the service worker has processed an
\* updateNote message that came from a tab, the note is updated in the
\* store and the last message sent to a tab is highlightSaved for the
\* note's identifier.
C39_UpdateFromTabConfirmed ==
  (probe.bg.action = "updateNote" /\ probe.bg.fromTab) =>
    /\ \E i \in 1..Len(probe.saved) :
         /\ probe.saved[i].id = probe.bg.id
         /\ probe.saved[i].text = probe.bg.text
    /\ probe.bg.toTab # <<>>
    /\ probe.bg.toTab[Len(probe.bg.toTab)] =
         [action |-> "highlightSaved", noteId |-> probe.bg.id]

====
